---- MODULE Spec2Model ----
(***************************************************************************)
(* Model of the SIP (recurring purchase plan) bot:                         *)
(*   - the intake conversation  bot/callbacks/admins/sip_config.py         *)
(*     registered by            bot/handlers/admins.py                     *)
(*   - the plan store           bot/backend/sip_config.py, main.py,        *)
(*                              db_utils.py                                *)
(*                                                                         *)
(* Text is modelled as a tuple of one-character strings, so that parsing   *)
(* is computed character by character as the code does it.                 *)
(***************************************************************************)
EXTENDS Integers, Sequences, FiniteSets, TLC

(***************************************************************************)
(* Bounds of the model (not program constants).                            *)
(***************************************************************************)
\* longest interval text enumerated exhaustively over IntervalAlphabet
MaxIntervalLen == 3
\* iterations of the schedule loop of received_interval explored in one run;
\* the shortest positive interval of IntervalTexts (30m) needs 48 + 5
MaxIter == 60

(***************************************************************************)
(* Program constants.                                                      *)
(***************************************************************************)
MaxLabelLen == 50
MinOrderUsd == 11
RunsWanted == 5
MinutesPerHour == 60
HoursPerDay == 24
MinutesPerDay == 1440
\* datetime.timedelta.max.days
MaxTimedeltaDays == 999999999
\* datetime.max.toordinal(), the last day a datetime can hold
MaxDateOrdinal == 3652059

(***************************************************************************)
(* Text helpers.                                                           *)
(***************************************************************************)
Digits == {"0", "1", "2", "3", "4", "5", "6", "7", "8", "9"}

DigitVal(c) ==
    CASE c = "0" -> 0 [] c = "1" -> 1 [] c = "2" -> 2 [] c = "3" -> 3
      [] c = "4" -> 4 [] c = "5" -> 5 [] c = "6" -> 6 [] c = "7" -> 7
      [] c = "8" -> 8 [] c = "9" -> 9

\* str.lower() on the characters of the model's alphabets
LowerChar(c) ==
    CASE c = "D" -> "d" [] c = "H" -> "h" [] c = "M" -> "m" [] OTHER -> c

lower(s) == [k \in 1..Len(s) |-> LowerChar(s[k])]

RECURSIVE lstrip(_)
lstrip(s) == IF s # <<>> /\ Head(s) = " " THEN lstrip(Tail(s)) ELSE s

RECURSIVE rstrip(_)
rstrip(s) ==
    IF s # <<>> /\ s[Len(s)] = " " THEN rstrip(SubSeq(s, 1, Len(s) - 1)) ELSE s

strip(s) == rstrip(lstrip(s))

\* value of a non-empty run of decimal digits, as int() computes it
RECURSIVE DigitsValue(_)
DigitsValue(s) ==
    IF s = <<>> THEN 0
    ELSE 10 * DigitsValue(SubSeq(s, 1, Len(s) - 1)) + DigitVal(s[Len(s)])

AllDigits(s) == s # <<>> /\ \A k \in 1..Len(s) : s[k] \in Digits

(***************************************************************************)
(* Results of a call: a value or the exception it raised.                  *)
(***************************************************************************)
Ok(v) == [ok |-> TRUE, val |-> v]
Raise(e) == [ok |-> FALSE, exc |-> e]

(***************************************************************************)
(* datetime.timedelta, normalised to whole days and minutes of the day     *)
(* (the bot only builds timedeltas from days, hours and minutes).          *)
(***************************************************************************)
timedelta_days(n) ==
    IF n > MaxTimedeltaDays THEN Raise("OverflowError")
    ELSE Ok([days |-> n, mins |-> 0])

timedelta_hours(n) ==
    IF n \div HoursPerDay > MaxTimedeltaDays THEN Raise("OverflowError")
    ELSE Ok([days |-> n \div HoursPerDay,
             mins |-> (n % HoursPerDay) * MinutesPerHour])

timedelta_minutes(n) ==
    IF n \div MinutesPerDay > MaxTimedeltaDays THEN Raise("OverflowError")
    ELSE Ok([days |-> n \div MinutesPerDay, mins |-> n % MinutesPerDay])

ZeroDelta == [days |-> 0, mins |-> 0]

(***************************************************************************)
(* interval_pattern = re.compile(r"^(\d+)([dhm])$")                        *)
(***************************************************************************)
interval_pattern_match(s) ==
    /\ Len(s) >= 2
    /\ AllDigits(SubSeq(s, 1, Len(s) - 1))
    /\ s[Len(s)] \in {"d", "h", "m"}

\* SipConfig.parse_interval_to_timedelta
parse_interval_to_timedelta(interval) ==
    LET low == lower(interval)
    IN  IF ~interval_pattern_match(low) THEN Raise("ValueError")
        ELSE LET num  == DigitsValue(SubSeq(low, 1, Len(low) - 1))
                 unit == low[Len(low)]
             IN  CASE unit = "d" -> timedelta_days(num)
                   [] unit = "h" -> timedelta_hours(num)
                   [] unit = "m" -> timedelta_minutes(num)
                   [] OTHER -> Raise("ValueError")

(***************************************************************************)
(* int(text): optional surrounding blanks, optional sign, decimal digits.  *)
(***************************************************************************)
int(text) ==
    LET t    == strip(text)
        body == IF t # <<>> /\ Head(t) \in {"+", "-"} THEN Tail(t) ELSE t
    IN  IF ~AllDigits(body) THEN Raise("ValueError")
        ELSE IF t # <<>> /\ Head(t) = "-" THEN Ok(0 - DigitsValue(body))
        ELSE Ok(DigitsValue(body))

\* str.rstrip("$")
RECURSIVE rstrip_dollar(_)
rstrip_dollar(s) ==
    IF s # <<>> /\ s[Len(s)] = "$"
    THEN rstrip_dollar(SubSeq(s, 1, Len(s) - 1)) ELSE s

(***************************************************************************)
(* A Python dict is a sequence of <<key, value>> entries with distinct     *)
(* keys, in insertion order.                                               *)
(***************************************************************************)
EmptyDict == <<>>
DictKeys(d) == {d[k][1] : k \in 1..Len(d)}
DictHas(d, key) == \E k \in 1..Len(d) : d[k][1] = key
DictGet(d, key) == d[CHOOSE k \in 1..Len(d) : d[k][1] = key][2]
DictSet(d, key, v) ==
    IF DictHas(d, key)
    THEN [k \in 1..Len(d) |-> IF d[k][1] = key THEN <<key, v>> ELSE d[k]]
    ELSE Append(d, <<key, v>>)

RECURSIVE SumValues(_)
SumValues(d) == IF d = <<>> THEN 0 ELSE d[1][2] + SumValues(Tail(d))

(***************************************************************************)
(* bot/const/consty.py                                                     *)
(***************************************************************************)
BTC == <<"B", "T", "C">>
ETH == <<"E", "T", "H">>
SOL == <<"S", "O", "L">>
HYPE == <<"H", "Y", "P", "E">>
PURR == <<"P", "U", "R", "R">>

SpotPairMapping ==
    << <<BTC, "BTC/USDC">>, <<ETH, "UETH/USDC">>, <<SOL, "USOL/USDC">> >>

TestnetPairs ==
    << <<HYPE, "HYPE/USDC">>, <<ETH, "UETH/USDC">>, <<PURR, "PURR/USDC">> >>

(***************************************************************************)
(* bot/models/misc.py: the Pair dataclass.  None of its fields has a       *)
(* default, so the generated __init__ raises TypeError unless every field  *)
(* is passed.                                                              *)
(***************************************************************************)
PairFields ==
    {"symbol", "price", "market_type", "base_token", "quote_token",
     "sz_decimals"}

Pair(kwargs) ==
    IF PairFields \subseteq DOMAIN kwargs THEN Ok(kwargs) ELSE Raise("TypeError")

(***************************************************************************)
(* received_coins, lines 128-143: the composition text, already split in   *)
(* lines, each line given as the list of its parts between " - "           *)
(* separators (so line.split(" - ") is the line itself).                   *)
(***************************************************************************)
HasDash(line) ==
    \/ Len(line) >= 2
    \/ \E p \in 1..Len(line) : \E k \in 1..Len(line[p]) : line[p][k] = "-"

RECURSIVE parse_lines(_, _)
parse_lines(lines, coins) ==
    IF lines = <<>> THEN Ok(coins)
    ELSE LET line == Head(lines)
         IN  IF ~HasDash(line) THEN Raise("ValueError")
             ELSE IF Len(line) # 2 THEN Raise("ValueError")
             ELSE LET amount == int(line[2])
                  IN  IF ~amount.ok THEN Raise("ValueError")
                      ELSE IF amount.val < 0 THEN Raise("ValueError")
                      ELSE IF amount.val > 100 THEN Raise("ValueError")
                      ELSE parse_lines(Tail(lines),
                                       DictSet(coins, line[1], amount.val))

parse_composition_AnyTotal(lines) ==
    IF lines = <<>> THEN Raise("ValueError") ELSE parse_lines(lines, EmptyDict)

parse_composition(lines) ==
    IF lines = <<>> THEN Raise("ValueError")
    ELSE LET r == parse_lines(lines, EmptyDict)
         IN  IF ~r.ok THEN r
             ELSE IF SumValues(r.val) # 100 THEN Raise("ValueError")
             ELSE r

(***************************************************************************)
(* received_coins, lines 145-160: one Pair per coin.  spot[coin] is what   *)
(* HyperliquidManager.get_spot_price does for that coin's pair: a price    *)
(* or an exception.                                                        *)
(***************************************************************************)
\* lines 150-157: the pair of a coin, or ValueError off the testnet list
pair_symbol(coin, is_mainnet) ==
    IF ~is_mainnet
    THEN IF ~DictHas(TestnetPairs, coin) THEN Raise("ValueError")
         ELSE Ok(DictGet(TestnetPairs, coin))
    ELSE IF DictHas(SpotPairMapping, coin)
         THEN Ok(DictGet(SpotPairMapping, coin))
         ELSE Ok(coin)

RECURSIVE resolve_pairs(_, _, _, _)
resolve_pairs(coins, is_mainnet, spot, pair_list) ==
    IF coins = <<>> THEN Ok(pair_list)
    ELSE LET coin  == coins[1][1]
             pair  == pair_symbol(coin, is_mainnet)
             price == spot[coin]
         IN  IF ~pair.ok THEN pair
             ELSE IF ~price.ok THEN price
             ELSE LET p == Pair([symbol |-> pair.val,
                                 price |-> price.val,
                                 market_type |-> "spot",
                                 base_token |-> coin,
                                 quote_token |-> "USDC"])
                  IN  IF ~p.ok THEN p
                      ELSE resolve_pairs(Tail(coins), is_mainnet, spot,
                                         Append(pair_list, p.val))

(***************************************************************************)
(* Python floats (IEEE 754 binary64) as far as calculate_token_amounts     *)
(* uses them.  A natural number of any size is the sequence of its limbs   *)
(* of LimbBits bits, least significant first, the last one not 0.  A float *)
(* is a sign, a natural m of at most 53 bits (2^53 included) and an        *)
(* exponent e, with value m * 2^e; zero has m = <<>>.  Every operation is  *)
(* correctly rounded, ties to even, as the hardware and CPython do it.     *)
(***************************************************************************)
MantissaBits == 53
LimbBits == 10
LimbBase == 1024
\* limbs a dividend is shifted by, so that the quotient has bits to round
DivisionShift == 8

RECURSIVE Pow10(_)
Pow10(n) == IF n = 0 THEN 1 ELSE 10 * Pow10(n - 1)

\* 2^n for n in 0..LimbBits
Pow2(n) == <<1, 2, 4, 8, 16, 32, 64, 128, 256, 512, 1024>>[n + 1]

\* limbs and value of a natural number below 2^31
RECURSIVE LimbsOf(_)
LimbsOf(n) ==
    IF n = 0 THEN <<>> ELSE <<n % LimbBase>> \o LimbsOf(n \div LimbBase)

RECURSIVE IntOf(_)
IntOf(l) == IF l = <<>> THEN 0 ELSE Head(l) + LimbBase * IntOf(Tail(l))

Zeros(n) == [k \in 1..n |-> 0]

\* without the leading zero limbs, which are the last of the sequence
Trim(l) ==
    IF \A j \in 1..Len(l) : l[j] = 0 THEN <<>>
    ELSE SubSeq(l, 1, CHOOSE j \in 1..Len(l) :
                         l[j] # 0 /\ \A i \in (j + 1)..Len(l) : l[i] = 0)

\* number of bits of l # <<>>
BitLength(l) ==
    LimbBits * (Len(l) - 1)
        + (CHOOSE k \in 1..LimbBits :
              Pow2(k - 1) <= l[Len(l)] /\ l[Len(l)] < Pow2(k))

\* bit j of l, bit 1 being the least significant
BitAt(l, j) ==
    IF j < 1 \/ j > LimbBits * Len(l) THEN 0
    ELSE (l[(j - 1) \div LimbBits + 1] \div Pow2((j - 1) % LimbBits)) % 2

\* some bit of l below bit j is 1
AnyBelow(l, j) ==
    \E i \in 1..Len(l) :
        \/ i <= (j - 1) \div LimbBits /\ l[i] # 0
        \/ /\ j >= 1
           /\ i = (j - 1) \div LimbBits + 1
           /\ l[i] % Pow2((j - 1) % LimbBits) # 0

\* floor(l / 2^s)
ShiftRight(l, s) ==
    LET a == s \div LimbBits
        b == s % LimbBits
    IN  IF Len(l) <= a THEN <<>>
        ELSE Trim([i \in 1..(Len(l) - a) |->
                      (l[i + a] \div Pow2(b))
                        + (IF i + a + 1 <= Len(l)
                           THEN (l[i + a + 1] % Pow2(b)) * Pow2(LimbBits - b)
                           ELSE 0)])

\* l + 1
Increment(l) ==
    IF \A j \in 1..Len(l) : l[j] = LimbBase - 1 THEN Zeros(Len(l)) \o <<1>>
    ELSE LET j == CHOOSE j \in 1..Len(l) :
                     l[j] # LimbBase - 1
                       /\ \A i \in 1..(j - 1) : l[i] = LimbBase - 1
         IN  [i \in 1..Len(l) |->
                 IF i < j THEN 0 ELSE IF i = j THEN l[i] + 1 ELSE l[i]]

\* l * k + carry, for 0 < k < 2^21
RECURSIVE MulLimbs(_, _, _)
MulLimbs(l, k, carry) ==
    IF l = <<>> THEN LimbsOf(carry)
    ELSE LET t == Head(l) * k + carry
         IN  <<t % LimbBase>> \o MulLimbs(Tail(l), k, t \div LimbBase)

\* long division of the limbs l[1..i] (above them the remainder r) by d,
\* for 0 < d < 2^21: quotient and remainder
RECURSIVE DivLimbs(_, _, _, _, _)
DivLimbs(l, i, d, r, q) ==
    IF i = 0 THEN [q |-> Trim(q), r |-> r]
    ELSE LET t == r * LimbBase + l[i]
         IN  DivLimbs(l, i - 1, d, t % d, <<t \div d>> \o q)

FloatZero == [neg |-> FALSE, m |-> <<>>, e |-> 0]

\* the float nearest to n * 2^e (+ something below the last bit of n when
\* sticky), for n # <<>>
RoundToFloat(neg, n, e, sticky) ==
    LET L == BitLength(n)
    IN  IF L <= MantissaBits THEN [neg |-> neg, m |-> n, e |-> e]
        ELSE LET k     == L - MantissaBits
                 kept  == ShiftRight(n, k)
                 guard == BitAt(n, k)
                 rest  == sticky \/ AnyBelow(n, k)
                 up    == guard = 1 /\ (rest \/ kept[1] % 2 = 1)
             IN  [neg |-> neg,
                  m   |-> IF up THEN Increment(kept) ELSE kept,
                  e   |-> e + k]

\* p / d for ints p >= 0 and d > 0 (true division)
int_truediv_Floor(p, d) ==
    IF p < d THEN FloatZero ELSE [neg |-> FALSE, m |-> LimbsOf(p \div d), e |-> 0]

int_truediv(p, d) ==
    IF p = 0 THEN FloatZero
    ELSE LET n  == Zeros(DivisionShift) \o LimbsOf(p)
             dv == DivLimbs(n, Len(n), d, 0, <<>>)
         IN  RoundToFloat(FALSE, dv.q, 0 - LimbBits * DivisionShift, dv.r # 0)

\* n * x for an int n and a float x >= 0
int_mul_float(n, x) ==
    IF n = 0 \/ x.m = <<>> THEN FloatZero
    ELSE RoundToFloat(n < 0, MulLimbs(x.m, IF n < 0 THEN 0 - n ELSE n, 0),
                      x.e, FALSE)

\* x / price for a float x and a price > 0 that is a whole number
float_div(x, price) ==
    IF x.m = <<>> THEN FloatZero
    ELSE LET n  == Zeros(DivisionShift) \o x.m
             dv == DivLimbs(n, Len(n), price, 0, <<>>)
         IN  RoundToFloat(x.neg, dv.q, x.e - LimbBits * DivisionShift,
                          dv.r # 0)

\* floor(|x| * k), and whether |x| * k is above its floor by less than,
\* exactly, or more than one half (-1, 0, 1; 2 when it is a whole number);
\* for a float x with a negative exponent
Scaled(x, k) ==
    IF x.m = <<>> THEN [floor |-> 0, half |-> 2]
    ELSE LET X     == MulLimbs(x.m, k, 0)
             f     == 0 - x.e
             guard == BitAt(X, f)
             rest  == AnyBelow(X, f)
         IN  [floor |-> IntOf(ShiftRight(X, f)),
              half  |-> IF guard = 1 THEN (IF rest THEN 1 ELSE 0)
                        ELSE (IF rest THEN 0 - 1 ELSE 2)]

\* round(x, ndigits): the float nearest to x among the multiples of
\* 10^-ndigits, a tie (of the float's exact value) going to the even one;
\* given as the number of 10^-ndigits it holds
round(x, ndigits) ==
    LET s == Scaled(x, Pow10(ndigits))
        n == IF s.half = 1 \/ (s.half = 0 /\ s.floor % 2 = 1)
             THEN s.floor + 1 ELSE s.floor
    IN  IF x.neg THEN 0 - n ELSE n

\* x < n for a float x with a negative exponent and an int n > 0
float_lt_int(x, n) ==
    IF x.m = <<>> \/ x.neg THEN TRUE
    ELSE LET whole == ShiftRight(x.m, 0 - x.e)
         IN  IF Len(whole) > 3 THEN FALSE ELSE IntOf(whole) < n

\* Python's None, and a present value
None == [some |-> FALSE]
Some(v) == [some |-> TRUE, v |-> v]

(***************************************************************************)
(* SipConfig.calculate_token_amounts.  A price is a whole number of        *)
(* dollars (the float of that value); qty is given as the number of        *)
(* 10^-sz_decimals units round() returned.                                 *)
(***************************************************************************)
\* {pair.base_token: pair.<field> for pair in pairs}.get(token)
PairLookup(pairs, token, field) ==
    IF \E k \in 1..Len(pairs) : pairs[k].base_token = token
    THEN LET last == CHOOSE k \in 1..Len(pairs) :
                        /\ pairs[k].base_token = token
                        /\ \A j \in (k + 1)..Len(pairs) :
                              pairs[j].base_token # token
         IN  Some(pairs[last][field])
    ELSE None

RECURSIVE token_amounts_SkipUnpriced(_, _, _, _)
token_amounts_SkipUnpriced(coins, pairs, sip_amount, result) ==
    IF coins = <<>> THEN Ok(result)
    ELSE LET token     == coins[1][1]
             percent   == coins[1][2]
             token_usd == int_mul_float(sip_amount, int_truediv(percent, 100))
             price     == PairLookup(pairs, token, "price")
             sz        == PairLookup(pairs, token, "sz_decimals")
         IN  IF price.some /\ price.v # 0
             THEN token_amounts_SkipUnpriced(Tail(coins), pairs, sip_amount,
                    DictSet(result, token,
                        [qty |-> round(float_div(token_usd, price.v), sz.v),
                         token_usd |-> token_usd,
                         price |-> price.v]))
             ELSE token_amounts_SkipUnpriced(Tail(coins), pairs, sip_amount,
                                             result)

RECURSIVE token_amounts(_, _, _, _)
token_amounts(coins, pairs, sip_amount, result) ==
    IF coins = <<>> THEN Ok(result)
    ELSE LET token     == coins[1][1]
             percent   == coins[1][2]
             token_usd == int_mul_float(sip_amount, int_truediv(percent, 100))
             price     == PairLookup(pairs, token, "price")
             sz        == PairLookup(pairs, token, "sz_decimals")
         IN  IF price.some /\ price.v # 0
             THEN token_amounts(Tail(coins), pairs, sip_amount,
                    DictSet(result, token,
                        [qty |-> round(float_div(token_usd, price.v), sz.v),
                         token_usd |-> token_usd,
                         price |-> price.v]))
             ELSE Raise("ValueError")

calculate_token_amounts(coins, pairs, sip_amount) ==
    token_amounts(coins, pairs, sip_amount, EmptyDict)

(***************************************************************************)
(* received_amount, lines 181-195: the legs the breakup loop reports as    *)
(* errors (qty <= 0, else token_usd < 11).                                 *)
(***************************************************************************)
LegInvalid_NoMinimum(leg) == FALSE

LegInvalid(leg) ==
    \/ leg.qty <= 0
    \/ float_lt_int(leg.token_usd, MinOrderUsd)

breakup_errors(coins_breakup) ==
    {coins_breakup[k][1] : k \in {j \in 1..Len(coins_breakup) :
                                     LegInvalid(coins_breakup[j][2])}}

(***************************************************************************)
(* The sip_config table (db_utils.init_db): a list of rows.  label is the  *)
(* PRIMARY KEY; amount has REAL affinity, so an integer is stored as the   *)
(* float of the same value; coins holds the JSON text json.dumps wrote.    *)
(***************************************************************************)
SipConfigColumns ==
    {"label", "coins", "interval", "amount", "enabled", "created_at"}

\* a float, as opposed to the int of the same value
Float(v) == [float |-> v]
FloatValue(x) == x.float

\* json.dumps(coins): the text of a JSON object, members in dict order
json_dumps(coins) == [json |-> coins]

\* db_utils.parse_coins_json: the members back, every value as a float
parse_coins_json(coins_str) ==
    [k \in 1..Len(coins_str.json) |->
        <<coins_str.json[k][1], Float(coins_str.json[k][2])>>]

\* SELECT ... FROM sip_config WHERE <column> = ?  (BaseDB.fetch_one):
\* a dict of the first matching row, {} when there is none, and
\* OperationalError when the table has no such column
NoRow == [k \in {} |-> 0]

fetch_one(table, column, value) ==
    IF column \notin SipConfigColumns THEN Raise("OperationalError")
    ELSE IF \E k \in 1..Len(table) : table[k][column] = value
    THEN Ok(table[CHOOSE k \in 1..Len(table) :
                    /\ table[k][column] = value
                    /\ \A j \in 1..(k - 1) : table[j][column] # value])
    ELSE Ok(NoRow)

\* INSERT INTO sip_config ... (BaseDB.execute): the PRIMARY KEY on label
\* makes the statement fail with IntegrityError when the label is taken
execute_insert_NoPrimaryKey(table, row) == Ok(Append(table, row))

execute_insert(table, row) ==
    IF \E k \in 1..Len(table) : table[k].label = row.label
    THEN Raise("IntegrityError")
    ELSE Ok(Append(table, row))

\* the row SIPConfig.add_config binds to its INSERT
add_config_row(args) ==
    [label      |-> args.label,
     coins      |-> json_dumps(args.coins),
     interval   |-> args.interval,
     amount     |-> Float(args.amount),
     enabled    |-> 1,
     created_at |-> "utcnow"]

\* SIPConfig.get_config / get_config_by_label: dict(row) or None
get_config(table, id) ==
    LET row == fetch_one(table, "id", id)
    IN  IF ~row.ok THEN row
        ELSE IF DOMAIN row.val # {} THEN Ok(Some(row.val)) ELSE Ok(None)

get_config_by_label_NotFound(table, label) == Ok(None)

get_config_by_label(table, label) ==
    LET row == fetch_one(table, "label", label)
    IN  IF ~row.ok THEN row
        ELSE IF DOMAIN row.val # {} THEN Ok(Some(row.val)) ELSE Ok(None)

(***************************************************************************)
(* Inputs of the model.                                                    *)
(***************************************************************************)
Repeat(c, n) == [k \in 1..n |-> c]

\* texts sent in the Label state (Telegram never delivers an empty text)
LabelTexts == {<<"a">>, Repeat("b", MaxLabelLen), Repeat("c", MaxLabelLen + 1)}

N0 == <<"0">>
N40 == <<"4", "0">>
N50 == <<"5", "0">>
N60 == <<"6", "0">>
N100 == <<"1", "0", "0">>
N101 == <<"1", "0", "1">>

\* texts sent in the Composition state
CompositionTexts ==
    { << <<HYPE, N60>>, <<ETH, N40>> >>,          \* adds to 100
      << <<HYPE, N100>>, <<ETH, N0>> >>,          \* a zero weight
      << <<BTC, N100>> >>,                        \* not a testnet coin
      << <<HYPE, N50>>, <<ETH, N40>> >>,          \* adds to 90
      << <<HYPE, N60>>, <<HYPE, N40>> >>,         \* a coin named twice
      << <<HYPE, N101>> >>,                       \* above 100
      << <<HYPE, <<"-", "5">> >> >>,              \* negative
      << <<HYPE, <<"x">> >> >>,                   \* not a number
      << << <<"H", "Y", "P", "E", "-", "1", "0", "0">> >> >>,  \* "HYPE-100"
      << << <<"H", "Y", "P", "E", " ", "1", "0", "0">> >> >>,  \* "HYPE 100"
      << <<HYPE, N60, N40>> >> }                  \* two separators

\* what get_spot_price can do for one pair
Prices == {0, 20, 50000}
SpotOutcomes ==
    {Ok(p) : p \in Prices} \cup {Raise("ValueError"), Raise("ConnectionError")}

\* quantity precisions of the venue
SzDecimals == {2}

\* texts sent in the Budget state
AmountTexts ==
    { <<"1", "0", "0", "0", "$">>, <<"2", "8">>, <<"2", "0">>, <<"0">>,
      <<"-", "5">>, <<"1", "2", ".", "5">> }

\* texts sent in the Interval state
IntervalTexts ==
    { <<"4", "h">>, <<"1", "d">>, <<"3", "0", "m">>, <<" ", "4", "H">>,
      <<"0", "m">>, <<"4", "x">>,
      <<"9", "9", "9", "9", "9", "9", "9", "d">>,
      <<"1", "0", "0", "0", "0", "0", "0", "0", "0", "0", "d">> }

\* datetime.utcnow() when the Interval handler runs: a day (proleptic
\* ordinal) and the minute of that day
NowDay == 739922
Nows == {[day |-> NowDay, min |-> m] : m \in {0, 721, 1439}}

\* how a statement sent to the storage engine can fail on its own
DbFaults == {"none", "OperationalError"}

\* callback data the Confirmation keyboard can send (kb_mks.py)
ConfirmationData == {"confirm", "cancel"}

\* other processes writing to the same store, and how many add_config
\* calls they start in one run
Callers == {"w1", "w2"}
MaxCalls == 3
\* intakes started in one run
MaxIntakes == 2

(***************************************************************************)
(* State.                                                                  *)
(***************************************************************************)
VARIABLES
    conv,        \* state of the operator's conversation in ConversationHandler
    user_data,   \* context.user_data: the intake session
    is_mainnet,  \* context.bot_data["is_mainnet"]
    sip_config,  \* the sip_config table
    pc,          \* where the bot's running handler is suspended
    frame,       \* local variables of the suspended handler
    reply,       \* the last message the handler sent to the operator
    raised,      \* the exception that escaped the last handler, or "none"
    passed,      \* steps of the current intake whose handler moved forward
    inserted,    \* rows the current intake has inserted
    intakes,     \* intakes started so far
    others,      \* add_config calls of the other processes
    log,         \* completed add_config calls of the other processes
    fetched,     \* what the last get_config / get_config_by_label returned
    parsed,      \* the last parse_interval_to_timedelta call and its result
    sized,       \* the last calculate_token_amounts call and its result
    internal_config,  \* the config_hash row of each database's internal_config
    manager      \* the ConfigManager of the last startup and what it did

vars ==
    <<conv, user_data, is_mainnet, sip_config, pc, frame, reply, raised,
      passed, inserted, intakes, others, log, fetched, parsed, sized,
      internal_config, manager>>

startupVars == <<internal_config, manager>>

botVars == <<conv, user_data, pc, frame, reply, raised, passed, inserted, intakes>>
probeVars == <<fetched, parsed, sized>>

NoData == [k \in {} |-> 0]
Put(d, key, v) == [k \in DOMAIN d \cup {key} |-> IF k = key THEN v ELSE d[k]]

\* bot/const/consty.py, class STATES
STATES_LABEL == "LABEL"
STATES_COINS_AsAmount == "AMOUNT"
STATES_COINS == "COINS"
STATES_AMOUNT == "AMOUNT"
STATES_INTERVAL == "INTERVAL"
STATES_CONFIRMATION == "CONFIRMATION"

\* no conversation yet, or ConversationHandler.END returned after an accept
\* ("DONE") or after a reject or /cancel ("CANCELLED")
Terminal == {"NONE", "DONE", "CANCELLED"}
InProgress == {"LABEL", "COINS", "AMOUNT", "INTERVAL", "CONFIRMATION"}

IdleCall == [pc |-> "idle"]

(***************************************************************************)
(* The handlers of the conversation (handlers/admins.py).  A handler that  *)
(* returns None or lets an exception escape leaves the conversation where  *)
(* it was.  Updates are processed one at a time, so no handler starts      *)
(* while another one is suspended (pc # "idle").                           *)
(***************************************************************************)
\* a message to the operator; coins are the assets it names
Msg(m) == [msg |-> m, coins |-> {}]
MsgAbout(m, cs) == [msg |-> m, coins |-> cs]

\* the handler returned `state` after replying `msg`
Return(state, msg, data) ==
    /\ conv' = state
    /\ reply' = msg
    /\ raised' = "none"
    /\ user_data' = data
    /\ pc' = "idle"
    /\ frame' = NoData

\* the exception `exc` escaped the handler
Escape_Swallowed(exc, msg, data) ==
    /\ conv' = conv
    /\ reply' = msg
    /\ raised' = "none"
    /\ user_data' = data
    /\ pc' = "idle"
    /\ frame' = NoData

Escape(exc, msg, data) ==
    /\ conv' = conv
    /\ reply' = msg
    /\ raised' = exc
    /\ user_data' = data
    /\ pc' = "idle"
    /\ frame' = NoData

\* SipConfig.start_add_config, the entry point /add_config
start_add_config ==
    /\ pc = "idle"
    /\ conv \in Terminal
    /\ intakes < MaxIntakes
    /\ intakes' = intakes + 1
    /\ passed' = {}
    /\ inserted' = 0
    /\ Return(STATES_LABEL, Msg("ask_label"), user_data)
    /\ UNCHANGED <<is_mainnet, sip_config, others, log, fetched, parsed, sized,
                   startupVars>>

\* SipConfig.received_label
received_label(label, fault) ==
    /\ pc = "idle"
    /\ conv = STATES_LABEL
    /\ label # <<>>      \* filters.TEXT lets no empty text through
    /\ IF Len(label) > MaxLabelLen
       THEN Return(conv, Msg("bad_label"), user_data) /\ UNCHANGED passed
       ELSE IF fault # "none"
       THEN Escape(fault, reply, user_data) /\ UNCHANGED passed
       ELSE LET db_record == get_config_by_label(sip_config, label)
            IN  IF db_record.val.some
                THEN Return(conv, Msg("label_exists"), user_data) /\ UNCHANGED passed
                ELSE /\ Return(STATES_COINS, Msg("ask_composition"),
                               Put(user_data, "label", label))
                     /\ passed' = passed \cup {"LABEL"}
    /\ UNCHANGED <<is_mainnet, sip_config, inserted, intakes, others, log,
                   fetched, parsed, sized,
                   startupVars>>

\* SipConfig.received_coins
received_coins(lines, spot) ==
    /\ pc = "idle"
    /\ conv = STATES_COINS
    /\ LET coins == parse_composition(lines)
       IN  IF ~coins.ok
           THEN Return(STATES_COINS, Msg("bad_composition"), user_data)
                /\ UNCHANGED passed
           ELSE LET stored    == Put(user_data, "coins", coins.val)
                    pair_list == resolve_pairs(coins.val, is_mainnet, spot, <<>>)
                IN  IF pair_list.ok
                    THEN /\ Return(STATES_AMOUNT, Msg("ask_amount"),
                                   Put(stored, "pairs", pair_list.val))
                         /\ passed' = passed \cup {"COINS"}
                    ELSE IF pair_list.exc = "ValueError"
                    THEN Return(STATES_COINS, Msg("bad_composition"), stored)
                         /\ UNCHANGED passed
                    ELSE Escape(pair_list.exc, reply, stored)
                         /\ UNCHANGED passed
    /\ UNCHANGED <<is_mainnet, sip_config, inserted, intakes, others, log,
                   fetched, parsed, sized,
                   startupVars>>

\* SipConfig.received_amount
received_amount(text) ==
    /\ pc = "idle"
    /\ conv = STATES_AMOUNT
    /\ LET sip_amount == int(rstrip_dollar(strip(text)))
       IN  IF ~sip_amount.ok
           THEN Return(STATES_AMOUNT, Msg("bad_number"), user_data) /\ UNCHANGED passed
           ELSE LET stored == Put(user_data, "amount", sip_amount.val)
                IN  IF ~({"coins", "pairs"} \subseteq DOMAIN stored)
                    THEN Escape("KeyError", reply, stored) /\ UNCHANGED passed
                    ELSE LET coins_breakup ==
                                 calculate_token_amounts(stored["coins"],
                                     stored["pairs"], sip_amount.val)
                         IN  IF ~coins_breakup.ok
                             THEN Return(STATES_AMOUNT, Msg("bad_number"), stored)
                                  /\ UNCHANGED passed
                             ELSE IF breakup_errors(coins_breakup.val) # {}
                             THEN Return(STATES_AMOUNT,
                                         MsgAbout("insufficient",
                                           breakup_errors(coins_breakup.val)),
                                         stored)
                                  /\ UNCHANGED passed
                             ELSE /\ Return(STATES_INTERVAL, Msg("ask_interval"), stored)
                                  /\ passed' = passed \cup {"AMOUNT"}
    /\ UNCHANGED <<is_mainnet, sip_config, inserted, intakes, others, log,
                   fetched, parsed, sized,
                   startupVars>>

(***************************************************************************)
(* datetime arithmetic of received_interval, lines 217-225.  A datetime is *)
(* a day and a minute of the day; start_of_day has minute 0.               *)
(***************************************************************************)
\* i * delta
timedelta_mul(i, delta) ==
    IF delta.days > MaxTimedeltaDays \div i THEN Raise("OverflowError")
    ELSE LET total == i * delta.mins
             days  == i * delta.days + total \div MinutesPerDay
         IN  IF days > MaxTimedeltaDays THEN Raise("OverflowError")
             ELSE Ok([days |-> days, mins |-> total % MinutesPerDay])

\* start_of_day + d
datetime_add(start_of_day, d) ==
    IF d.days > MaxDateOrdinal - start_of_day.day THEN Raise("OverflowError")
    ELSE Ok([day |-> start_of_day.day + d.days, min |-> d.mins])

\* a > b, for a on a whole minute and b anywhere within its minute
datetime_gt(a, b) == a.day > b.day \/ (a.day = b.day /\ a.min > b.min)

\* SipConfig.received_interval, lines 213-220: up to the schedule loop
received_interval(text, now) ==
    /\ pc = "idle"
    /\ conv = STATES_INTERVAL
    /\ LET interval == strip(text)
           delta    == parse_interval_to_timedelta(interval)
       IN  IF delta.ok
           THEN /\ pc' = "interval_loop"
                /\ frame' = [interval     |-> interval,
                             delta        |-> delta.val,
                             now          |-> now,
                             start_of_day |-> [day |-> now.day, min |-> 0],
                             next_runs    |-> <<>>,
                             i            |-> 1]
                /\ UNCHANGED <<conv, user_data, reply, raised>>
           ELSE IF delta.exc = "ValueError"
           THEN Return(STATES_INTERVAL, Msg("bad_interval"), user_data)
           ELSE Escape(delta.exc, reply, user_data)
    /\ UNCHANGED <<is_mainnet, sip_config, passed, inserted, intakes, others,
                   log, fetched, parsed, sized,
                   startupVars>>

\* lines 221-225: one iteration of `while len(next_runs) < 5`
interval_loop ==
    /\ pc = "interval_loop"
    /\ Len(frame.next_runs) < RunsWanted
    /\ frame.i < MaxIter
    /\ LET step     == timedelta_mul(frame.i, frame.delta)
           next_run == IF step.ok THEN datetime_add(frame.start_of_day, step.val)
                       ELSE step
       IN  IF ~next_run.ok
           THEN Escape(next_run.exc, reply, user_data)
           ELSE /\ frame' =
                     [frame EXCEPT
                        !.next_runs = IF datetime_gt(next_run.val, frame.now)
                                      THEN Append(@, next_run.val) ELSE @,
                        !.i = @ + 1]
                /\ UNCHANGED <<conv, user_data, pc, reply, raised>>
    /\ UNCHANGED <<is_mainnet, sip_config, passed, inserted, intakes, others,
                   log, fetched, parsed, sized,
                   startupVars>>

\* lines 226-264: after the loop
interval_summary ==
    /\ pc = "interval_loop"
    /\ Len(frame.next_runs) >= RunsWanted
    /\ LET stored == Put(user_data, "interval", frame.interval)
       IN  IF ~({"coins", "pairs", "amount"} \subseteq DOMAIN stored)
           THEN Escape("KeyError", Msg("next_runs"), stored) /\ UNCHANGED passed
           ELSE LET coins_breakup ==
                        calculate_token_amounts(stored["coins"],
                            stored["pairs"], stored["amount"])
                IN  IF ~coins_breakup.ok
                    THEN Return(STATES_INTERVAL, Msg("bad_interval"), stored)
                         /\ UNCHANGED passed
                    ELSE IF "label" \notin DOMAIN stored
                    THEN Escape("KeyError", Msg("next_runs"), stored)
                         /\ UNCHANGED passed
                    ELSE /\ Return(STATES_CONFIRMATION, Msg("ask_confirmation"),
                                   stored)
                         /\ passed' = passed \cup {"INTERVAL"}
    /\ UNCHANGED <<is_mainnet, sip_config, inserted, intakes, others, log,
                   fetched, parsed, sized,
                   startupVars>>

(***************************************************************************)
(* SIPConfig.add_config: the existence check and the INSERT are two        *)
(* statements, each in a connection of its own, with an await in between.  *)
(***************************************************************************)
\* lines 24-28
add_config_check_Skipped(table, label, fault) ==
    IF fault # "none" THEN Raise(fault) ELSE Ok(TRUE)

add_config_check(table, label, fault) ==
    IF fault # "none" THEN Raise(fault)
    ELSE LET existing == fetch_one(table, "label", label)
         IN  IF DOMAIN existing.val # {} THEN Raise("DuplicateLabelError")
             ELSE Ok(TRUE)

\* lines 29-45
add_config_insert(table, args, fault) ==
    IF fault # "none" THEN Raise(fault)
    ELSE execute_insert(table, add_config_row(args))

(***************************************************************************)
(* SipConfig.received_confirmation and SipConfig.cancel                    *)
(***************************************************************************)
\* line 270, negated
confirmation_accepted_Always(data) == TRUE

confirmation_accepted(data) == data = "confirm"

SessionKeys == {"label", "coins", "interval", "amount"}

\* lines 269-281, up to the await between add_config's two statements
received_confirmation(data, fault) ==
    /\ pc = "idle"
    /\ conv = STATES_CONFIRMATION
    /\ IF ~confirmation_accepted(data)
       THEN Return("CANCELLED", Msg("cancelled"), NoData)
       ELSE IF ~(SessionKeys \subseteq DOMAIN user_data)
       THEN Escape("KeyError", Msg("unexpected"), NoData)
       ELSE LET args  == [label    |-> user_data["label"],
                          coins    |-> user_data["coins"],
                          interval |-> user_data["interval"],
                          amount   |-> user_data["amount"]]
                check == add_config_check(sip_config, args.label, fault)
            IN  IF check.ok
                THEN /\ pc' = "confirm_insert"
                     /\ frame' = [data |-> data, args |-> args]
                     /\ UNCHANGED <<conv, user_data, reply, raised>>
                ELSE IF check.exc = "DuplicateLabelError"
                THEN Return("DONE", Msg("duplicate"), NoData)
                ELSE Escape(check.exc, Msg("unexpected"), NoData)
    /\ UNCHANGED <<is_mainnet, sip_config, passed, inserted, intakes, others,
                   log, fetched, parsed, sized,
                   startupVars>>

\* lines 281-295, from add_config's INSERT on
confirm_insert_KeepsSession(fault) ==
    /\ pc = "confirm_insert"
    /\ LET done == add_config_insert(sip_config, frame.args, fault)
       IN  IF done.ok
           THEN /\ sip_config' = done.val
                /\ inserted' = inserted + 1
                /\ Return("DONE", Msg("added"), user_data)
           ELSE /\ UNCHANGED <<sip_config, inserted>>
                /\ IF done.exc = "DuplicateLabelError"
                   THEN Return("DONE", Msg("duplicate"), NoData)
                   ELSE Escape(done.exc, Msg("unexpected"), NoData)
    /\ UNCHANGED <<is_mainnet, passed, intakes, others, log, fetched, parsed, sized,
                   startupVars>>

confirm_insert(fault) ==
    /\ pc = "confirm_insert"
    /\ LET done == add_config_insert(sip_config, frame.args, fault)
       IN  IF done.ok
           THEN /\ sip_config' = done.val
                /\ inserted' = inserted + 1
                /\ Return("DONE", Msg("added"), NoData)
           ELSE /\ UNCHANGED <<sip_config, inserted>>
                /\ IF done.exc = "DuplicateLabelError"
                   THEN Return("DONE", Msg("duplicate"), NoData)
                   ELSE Escape(done.exc, Msg("unexpected"), NoData)
    /\ UNCHANGED <<is_mainnet, passed, intakes, others, log, fetched, parsed, sized,
                   startupVars>>

\* SipConfig.cancel, the fallback /cancel
cancel_KeepsSession ==
    /\ pc = "idle"
    /\ conv \in InProgress
    /\ Return("CANCELLED", Msg("cancelled"), user_data)
    /\ UNCHANGED <<is_mainnet, sip_config, passed, inserted, intakes, others,
                   log, fetched, parsed, sized,
                   startupVars>>

cancel ==
    /\ pc = "idle"
    /\ conv \in InProgress
    /\ Return("CANCELLED", Msg("cancelled"), NoData)
    /\ UNCHANGED <<is_mainnet, sip_config, passed, inserted, intakes, others,
                   log, fetched, parsed, sized,
                   startupVars>>

(***************************************************************************)
(* add_config called by another process on the same store.  seen is the    *)
(* number of calls already completed when this one started, fresh tells    *)
(* whether its label was free then.                                        *)
(***************************************************************************)
InFlight == {c \in Callers : others[c].pc # "idle"}

Completed(c, args, seen, fresh, result) ==
    [caller |-> c, args |-> args, seen |-> seen, fresh |-> fresh,
     result |-> result]

other_add_config(c, args, fault) ==
    /\ others[c].pc = "idle"
    /\ Len(log) + Cardinality(InFlight) < MaxCalls
    /\ LET check == add_config_check(sip_config, args.label, fault)
           fresh == \A k \in 1..Len(sip_config) : sip_config[k].label # args.label
       IN  IF check.ok
           THEN /\ others' = [others EXCEPT ![c] =
                                 [pc |-> "insert", args |-> args,
                                  seen |-> Len(log), fresh |-> fresh]]
                /\ UNCHANGED log
           ELSE /\ log' = Append(log, Completed(c, args, Len(log), fresh,
                                                check.exc))
                /\ UNCHANGED others
    /\ UNCHANGED <<botVars, is_mainnet, sip_config, fetched, parsed, sized,
                   startupVars>>

other_add_config_insert(c, fault) ==
    /\ others[c].pc = "insert"
    /\ LET call == others[c]
           done == add_config_insert(sip_config, call.args, fault)
       IN  /\ sip_config' = IF done.ok THEN done.val ELSE sip_config
           /\ log' = Append(log, Completed(c, call.args, call.seen, call.fresh,
                                           IF done.ok THEN "ok" ELSE done.exc))
           /\ others' = [others EXCEPT ![c] = IdleCall]
    /\ UNCHANGED <<botVars, is_mainnet, fetched, parsed, sized,
                   startupVars>>

(***************************************************************************)
(* Reading a plan back (after is the number of add_config calls completed  *)
(* before the read), and parsing an interval on its own.                   *)
(***************************************************************************)
read_config(id) ==
    /\ fetched' = [op |-> "get_config", key |-> id, after |-> Len(log),
                   result |-> get_config(sip_config, id)]
    /\ UNCHANGED <<botVars, is_mainnet, sip_config, others, log, parsed, sized,
                   startupVars>>

read_config_by_label(label) ==
    /\ fetched' = [op |-> "get_config_by_label", key |-> label,
                   after |-> Len(log),
                   result |-> get_config_by_label(sip_config, label)]
    /\ UNCHANGED <<botVars, is_mainnet, sip_config, others, log, parsed, sized,
                   startupVars>>

parse_interval ==
    /\ ~parsed.done
    /\ parsed' = [parsed EXCEPT !.done = TRUE,
                     !.result = parse_interval_to_timedelta(parsed.text)]
    /\ UNCHANGED <<botVars, is_mainnet, sip_config, others, log, fetched, sized,
                   startupVars>>

\* calculate_token_amounts called on its own
calculate_amounts ==
    /\ ~sized.done
    /\ sized.coins # <<>>
    /\ sized' = [sized EXCEPT !.done = TRUE,
                    !.result = calculate_token_amounts(sized.coins, sized.pairs,
                                                       sized.sip_amount)]
    /\ UNCHANGED <<botVars, is_mainnet, sip_config, others, log, fetched,
                   parsed, startupVars>>

(***************************************************************************)
(* bot/models/config_manager.py: the check of the configuration that runs  *)
(* at every startup (run.py, post_init).  A loaded configuration is the    *)
(* dict yaml.safe_load built: sections in file order, each a dict of its   *)
(* fields in file order.  A ConfigManager is carried through the methods   *)
(* as a record: its attributes, the tables it reads and writes, the calls  *)
(* it made so far and the exception that ended the run ("none" while the   *)
(* run goes on).                                                           *)
(***************************************************************************)
\* startups in one run of the model
MaxStartups == 3

\* hashlib.sha256(text).hexdigest(): different texts, different digests
sha256(text) == [sha256 |-> text]

DbPaths == {"data/testnet.db", "data/mainnet.db"}

\* ConfigManager.__init__, on a host whose databases hold tables
ConfigManager(tables) ==
    [config          |-> EmptyDict,
     config_hash     |-> <<>>,
     exchange        |-> None,
     is_mainnet      |-> FALSE,
     config_changed  |-> None,
     internal_config |-> tables,
     calls           |-> <<>>,
     balances        |-> None,
     resting         |-> FALSE,
     filled          |-> FALSE,
     raised          |-> "none"]

Called(m, name) == [m EXCEPT !.calls = Append(@, name)]
Raised(m, exc) == [m EXCEPT !.raised = exc]

\* InternalConfig.get and InternalConfig.set on the row of key "config_hash";
\* answer is what the storage engine does with the statement
InternalConfig_get(tables, db_path, answer) ==
    IF answer # "ok" THEN Raise(answer) ELSE Ok(tables[db_path])

InternalConfig_set(tables, db_path, value, answer) ==
    IF answer # "ok" THEN Raise(answer)
    ELSE Ok([tables EXCEPT ![db_path] = Some(value)])

\* load_config_file: file is None when config.yaml does not exist
load_config_file(m, file) ==
    IF ~file.some THEN Raised(m, "ConfigError")
    ELSE [m EXCEPT !.config = file.v]

\* get_db_path: the path is left in db_path
get_db_path(m) ==
    IF ~DictHas(m.config, "hyperliquid") THEN Raise("KeyError")
    ELSE LET hyperliquid == DictGet(m.config, "hyperliquid")
         IN  IF ~DictHas(hyperliquid, "testnet") THEN Raise("KeyError")
             ELSE IF DictGet(hyperliquid, "testnet")
                  THEN Ok([m |-> m, db_path |-> "data/testnet.db"])
                  ELSE Ok([m |-> [m EXCEPT !.is_mainnet = TRUE],
                           db_path |-> "data/mainnet.db"])

\* last_success_hash == self.config_hash, line 100
same_hash_Never(last_success_hash, config_hash) == FALSE

same_hash(last_success_hash, config_hash) ==
    last_success_hash.some /\ last_success_hash.v = config_hash

\* load_config: what it returns is left in config_changed
load_config(m, file, o) ==
    LET loaded == load_config_file(m, file)
        hashed == [loaded EXCEPT !.config_hash = sha256(json_dumps(loaded.config))]
        path == get_db_path(hashed)
        last == InternalConfig_get(m.internal_config, path.val.db_path, o.get)
    IN  IF loaded.raised # "none" THEN loaded
        ELSE IF ~path.ok THEN Raised(hashed, path.exc)
        ELSE IF ~last.ok THEN Raised(Called(path.val.m, "get"), last.exc)
        ELSE [Called(path.val.m, "get") EXCEPT
                 !.config_changed = Some(~same_hash(last.val, hashed.config_hash))]

\* dict.get(key, {}) and dict.get(key)
Section(config, name) ==
    IF DictHas(config, name) THEN DictGet(config, name) ELSE EmptyDict

Field(section, key) ==
    IF DictHas(section, key) THEN Some(DictGet(section, key)) ELSE None

\* truth value of an Optional[str]
Truthy(field) == field.some /\ field.v # <<>>

\* re.match(r"^\d+:[\w-]{35,}$", bot_token); word is \w on the characters
\* of the model's alphabet
bot_token_match(bot_token) ==
    LET word == Digits \cup {"a", "f", "k", "x", "_"}
    IN  \E i \in 2..Len(bot_token) :
           /\ bot_token[i] = ":"
           /\ AllDigits(SubSeq(bot_token, 1, i - 1))
           /\ Len(bot_token) - i >= 35
           /\ \A k \in (i + 1)..Len(bot_token) : bot_token[k] \in word \cup {"-"}

\* a scalar of the file is a text, a bool, or a number [int |-> n]
isinstance_int(field) == field.some /\ DOMAIN field.v = {"int"}

initial_validation_Skipped(m) == Called(m, "initial_validation")

initial_validation(m) ==
    LET telegram_cfg == Section(m.config, "telegram")
        hyperliquid_cfg == Section(m.config, "hyperliquid")
        bot_token == Field(telegram_cfg, "bot_token")
        errors ==
            {e \in {"bot_token", "user_id", "wallet_address", "private_key"} :
                CASE e = "bot_token" ->
                        ~Truthy(bot_token) \/ ~bot_token_match(bot_token.v)
                  [] e = "user_id" ->
                        ~isinstance_int(Field(telegram_cfg, "user_id"))
                  [] e = "wallet_address" ->
                        ~Truthy(Field(hyperliquid_cfg, "wallet_address"))
                  [] e = "private_key" ->
                        ~Truthy(Field(hyperliquid_cfg, "private_key"))}
    IN  IF errors # {} THEN Raised(Called(m, "initial_validation"), "ConfigError")
        ELSE Called(m, "initial_validation")

\* Account.from_key: a private key is 32 bytes in hexadecimal
Account_from_key(private_key) ==
    IF /\ Len(private_key) = 64
       /\ \A k \in 1..64 : private_key[k] \in Digits \cup {"a", "b", "c", "d", "e", "f"}
    THEN Ok([key |-> private_key])
    ELSE Raise("ValueError")

\* _load_exchange; the address from_key derives is a checksum address
load_exchange(m) ==
    LET hyperliquid == DictGet(m.config, "hyperliquid")
        fields == {"private_key", "wallet_address", "testnet"}
        account == Account_from_key(DictGet(hyperliquid, "private_key"))
        base_url == IF DictGet(hyperliquid, "testnet") THEN "TESTNET_API_URL"
                    ELSE "MAINNET_API_URL"
    IN  IF ~DictHas(m.config, "hyperliquid") \/ ~(fields \subseteq DictKeys(hyperliquid))
        THEN Raised(Called(m, "load_exchange"), "KeyError")
        ELSE IF ~account.ok THEN Raised(Called(m, "load_exchange"), "ConfigError")
        ELSE [Called(m, "load_exchange") EXCEPT
                 !.exchange = Some([base_url |-> base_url,
                                    account_address |->
                                        DictGet(hyperliquid, "wallet_address")])]

\* _validate_hyperliquid, lines 181-196: the account's state
account_state(m, o) ==
    IF o.state # "ok" THEN Raised(Called(m, "user_state"), o.state)
    ELSE LET asked == [Called(Called(m, "user_state"), "spot_user_state")
                          EXCEPT !.balances = Some(o.balances)]
         IN  IF o.balances > 0 THEN asked ELSE Raised(asked, "ConfigError")

\* _validate_hyperliquid, lines 204-228: the test order
test_order(m, o) ==
    LET priced == Called(m, "get_spot_price")
        ordered == Called(priced, "order")
    IN  IF o.price # "ok" THEN Raised(priced, o.price)
        ELSE CASE o.order = "ServerError" -> Raised(ordered, "ServerError")
               [] o.order = "err" -> Raised(ordered, "ConfigError")
               [] o.order = "resting" ->
                     LET asked == [Called(ordered, "cancel") EXCEPT !.resting = TRUE]
                     IN  CASE o.cancel = "success" -> [asked EXCEPT !.resting = FALSE]
                           [] o.cancel = "error" -> asked
                           [] OTHER -> Raised(asked, o.cancel)
               [] o.order = "no_match" -> ordered
               [] o.order = "other_error" -> Raised(ordered, "ConfigError")
               [] o.order = "filled" ->
                     Raised([ordered EXCEPT !.filled = TRUE], "KeyError")

\* _validate_hyperliquid, lines 230-234
save_hash(m, o) ==
    LET path == get_db_path(m)
        saved == InternalConfig_set(m.internal_config, path.val.db_path,
                                    m.config_hash, o.set)
    IN  IF m.config_hash = <<>> THEN m
        ELSE IF ~path.ok THEN Raised(m, path.exc)
        ELSE IF ~saved.ok THEN Raised(Called(path.val.m, "set"), saved.exc)
        ELSE [Called(path.val.m, "set") EXCEPT !.internal_config = saved.val]

\* _validate_hyperliquid: whatever is raised inside is raised as ConfigError
validate_hyperliquid(m, o) ==
    LET loaded == load_exchange(m)
        state == account_state(loaded, o)
        probed == test_order(state, o)
        saved == save_hash(probed, o)
        done == IF loaded.raised # "none" THEN loaded
                ELSE IF state.raised # "none" THEN state
                ELSE IF probed.raised # "none" THEN probed
                ELSE saved
    IN  IF done.raised # "none" THEN Raised(done, "ConfigError") ELSE done

\* _external_validation
external_validation(m, o) ==
    LET telegram_cfg == DictGet(m.config, "telegram")
    IN  IF ~DictHas(m.config, "telegram")
           \/ ~({"bot_token", "user_id"} \subseteq DictKeys(telegram_cfg))
        THEN Raised(m, "KeyError")
        ELSE IF o.chat # "ok" THEN Raised(Called(m, "get_chat"), "ConfigError")
        ELSE validate_hyperliquid(Called(m, "get_chat"), o)

\* ConfigManager.validate on the file found at this startup
validate_run(m, file, o) ==
    LET loaded == load_config(m, file, o)
        checked == initial_validation(loaded)
    IN  IF loaded.raised # "none" THEN loaded
        ELSE IF loaded.config_changed.v
             THEN IF checked.raised # "none" THEN checked
                  ELSE external_validation(checked, o)
             ELSE load_exchange(loaded)

(***************************************************************************)
(* Configuration files, and what the services answer in one startup.       *)
(* run.py reads telegram.bot_token from the file before it calls validate, *)
(* so every file a startup validates exists and has that entry.            *)
(***************************************************************************)
GoodToken == <<"1", ":">> \o Repeat("a", 35)
ShortToken == <<"1", ":">> \o Repeat("a", 34)
GoodKey == Repeat("a", 64)
Wallet == <<"0", "x", "a">>

Telegram(bot_token, user_id) ==
    << <<"bot_token", bot_token>>, <<"user_id", user_id>> >>
Hyperliquid(private_key, testnet) ==
    << <<"wallet_address", Wallet>>, <<"private_key", private_key>>,
       <<"testnet", testnet>> >>
ConfigOf(telegram, hyperliquid) ==
    << <<"telegram", telegram>>, <<"hyperliquid", hyperliquid>> >>

UserId == [int |-> 7]
GoodTestnet == ConfigOf(Telegram(GoodToken, UserId), Hyperliquid(GoodKey, TRUE))
\* GoodTestnet with the sections and the fields of one section in another order
Reordered ==
    << <<"hyperliquid", << <<"testnet", TRUE>>, <<"wallet_address", Wallet>>,
                           <<"private_key", GoodKey>> >> >>,
       <<"telegram", Telegram(GoodToken, UserId)>> >>
GoodMainnet == ConfigOf(Telegram(GoodToken, UserId), Hyperliquid(GoodKey, FALSE))

ConfigFiles ==
    {Some(GoodTestnet), Some(Reordered), Some(GoodMainnet),
     Some(<< <<"telegram", Telegram(GoodToken, UserId)>> >>),
     Some(ConfigOf(Telegram(GoodToken, UserId),
                   << <<"wallet_address", Wallet>>, <<"private_key", GoodKey>> >>)),
     Some(ConfigOf(Telegram(ShortToken, UserId), Hyperliquid(GoodKey, TRUE))),
     Some(ConfigOf(Telegram(GoodToken, [str |-> <<"7">>]), Hyperliquid(GoodKey, TRUE))),
     Some(ConfigOf(Telegram(GoodToken, UserId), Hyperliquid(<<"k">>, TRUE))),
     Some(ConfigOf(Telegram(GoodToken, UserId),
                   << <<"wallet_address", Wallet>>, <<"testnet", TRUE>> >>))}

\* Answers of the storage engine, of Telegram and of the venue to the calls
\* of one startup.  An answer to a call the run does not reach changes
\* nothing, so the answers after a failing one are fixed.
AllAnswers ==
    [get     : {"ok", "OperationalError"},
     chat    : {"ok", "TelegramError"},
     state   : {"ok", "ClientError", "ServerError"},
     balances : {0, 1},
     price   : {"ok", "ValueError"},
     order   : {"ServerError", "err", "resting", "no_match", "other_error", "filled"},
     cancel  : {"success", "error", "ServerError"},
     set     : {"ok", "OperationalError"}]

Smooth(o) ==
    /\ o.get = "ok" /\ o.chat = "ok" /\ o.state = "ok" /\ o.balances = 1
    /\ o.price = "ok"

Answers ==
    {o \in AllAnswers :
        /\ o.order # "resting" => o.cancel = "success"
        /\ \/ Smooth(o)
           \/ /\ o.order = "no_match" /\ o.set = "ok"
              /\ \E k \in {"get", "chat", "state", "balances", "price"} :
                    Smooth([o EXCEPT ![k] = IF k = "balances" THEN 1 ELSE "ok"])}

NoStartup ==
    [k \in (DOMAIN ConfigManager(<<>>) \ {"internal_config"}) \cup {"runs"} |->
        IF k = "runs" THEN 0 ELSE ConfigManager(<<>>)[k]]

\* one startup: run.py builds a ConfigManager and calls validate
validate(file, o) ==
    /\ manager.runs < MaxStartups
    /\ LET m == validate_run(ConfigManager(internal_config), file, o)
       IN  /\ internal_config' = m.internal_config
           /\ manager' = [k \in DOMAIN NoStartup |->
                             IF k = "runs" THEN manager.runs + 1 ELSE m[k]]
    /\ UNCHANGED <<botVars, is_mainnet, sip_config, others, log, probeVars>>

(***************************************************************************)
(* Initial states.                                                         *)
(*                                                                         *)
(* InitFresh is the bot after post_init: no conversation, an empty store.  *)
(*                                                                         *)
(* received_coins builds each Pair without sz_decimals, so as written no   *)
(* run that starts at /add_config gets past the Composition state.  The    *)
(* handlers behind it read user_data["pairs"] with a precision per pair;   *)
(* InitAtBudget starts them from the session a Composition step leaves     *)
(* when every Pair carries one: label and coins are values the Label and   *)
(* Composition code accepts, prices are values get_spot_price returned.    *)
(***************************************************************************)
IntervalAlphabet ==
    {"0", "1", "4", "9", "d", "h", "m", "D", "H", "M", "x", " "}

IntervalStrings ==
    UNION {[1..n -> IntervalAlphabet] : n \in 0..MaxIntervalLen}
        \cup IntervalTexts

NothingFetched ==
    [op |-> "none", key |-> <<>>, after |-> 0, result |-> Ok(None)]
NothingParsed == [text |-> <<>>, done |-> FALSE, result |-> Raise("none")]
NothingSized ==
    [coins |-> <<>>, pairs |-> <<>>, sip_amount |-> 0, done |-> FALSE,
     result |-> Raise("none")]

InitStoreIdle ==
    /\ sip_config = <<>>
    /\ others = [c \in Callers |-> IdleCall]
    /\ log = <<>>
    /\ fetched = NothingFetched
    /\ parsed = NothingParsed
    /\ sized = NothingSized
    /\ internal_config = [p \in DbPaths |-> None]
    /\ manager = NoStartup

InitBotIdle ==
    /\ conv = "NONE"
    /\ user_data = NoData
    /\ pc = "idle"
    /\ frame = NoData
    /\ reply = Msg("none")
    /\ raised = "none"
    /\ passed = {}
    /\ inserted = 0
    /\ intakes = 0

InitFresh ==
    /\ is_mainnet \in BOOLEAN
    /\ InitBotIdle
    /\ InitStoreIdle

SessionAfterComposition(label, coins, price, sz) ==
    [k \in {"label", "coins", "pairs"} |->
        CASE k = "label" -> label
          [] k = "coins" -> coins
          [] k = "pairs" ->
                [j \in 1..Len(coins) |->
                    Pair([symbol      |-> pair_symbol(coins[j][1], is_mainnet).val,
                          price       |-> price[coins[j][1]],
                          market_type |-> "spot",
                          base_token  |-> coins[j][1],
                          quote_token |-> "USDC",
                          sz_decimals |-> sz[coins[j][1]]]).val]]

InitAtBudget ==
    /\ is_mainnet \in BOOLEAN
    /\ InitStoreIdle
    /\ conv = STATES_AMOUNT
    /\ pc = "idle"
    /\ frame = NoData
    /\ reply = Msg("ask_amount")
    /\ raised = "none"
    /\ passed = {"LABEL", "COINS"}
    /\ inserted = 0
    /\ intakes = 1
    /\ \E label \in LabelTexts, lines \in CompositionTexts :
          /\ Len(label) <= MaxLabelLen
          /\ parse_composition(lines).ok
          /\ LET coins == parse_composition(lines).val
             IN  /\ \A coin \in DictKeys(coins) : pair_symbol(coin, is_mainnet).ok
                 /\ \E price \in [DictKeys(coins) -> Prices],
                       sz \in [DictKeys(coins) -> SzDecimals] :
                       user_data = SessionAfterComposition(label, coins, price, sz)

Init == InitFresh \/ InitAtBudget

(***************************************************************************)
(* Spec: the conversation, with one other process adding a plan.           *)
(***************************************************************************)
CoinsOf(lines) == {lines[k][1] : k \in 1..Len(lines)}

RaceArgs ==
    {[label |-> <<"a">>, coins |-> << <<BTC, 100>> >>,
      interval |-> <<"1", "d">>, amount |-> 500]}

Next ==
    \/ start_add_config
    \/ \E label \in LabelTexts, fault \in DbFaults : received_label(label, fault)
    \/ \E lines \in CompositionTexts :
          \E spot \in [CoinsOf(lines) -> SpotOutcomes] :
             received_coins(lines, spot)
    \/ \E text \in AmountTexts : received_amount(text)
    \/ \E text \in IntervalTexts, now \in Nows : received_interval(text, now)
    \/ interval_loop
    \/ interval_summary
    \/ \E data \in ConfirmationData, fault \in DbFaults :
          received_confirmation(data, fault)
    \/ \E fault \in DbFaults : confirm_insert(fault)
    \/ cancel
    \/ \E args \in RaceArgs : other_add_config("w1", args, "none")
    \/ other_add_config_insert("w1", "none")

Spec == Init /\ [][Next]_vars

(***************************************************************************)
(* SpecFromStart: the bot as it is built, from /add_config on.  The        *)
(* handlers behind the Composition state are left out: no run of this      *)
(* specification enables them.                                             *)
(***************************************************************************)
\* texts sent in the Label state: also no text at all, and a label that
\* differs from a stored one by case only
StartLabelTexts == LabelTexts \cup {<<>>, <<"A">>}

\* texts sent in the Composition state: also a coin named twice whose
\* lines add to 150 and whose last line alone is 100
StartCompositionTexts ==
    CompositionTexts \cup { << <<HYPE, N50>>, <<HYPE, N100>> >> }

NextFromStart ==
    \/ start_add_config
    \/ \E label \in StartLabelTexts, fault \in DbFaults :
          received_label(label, fault)
    \/ \E lines \in StartCompositionTexts :
          \E spot \in [CoinsOf(lines) -> SpotOutcomes] :
             received_coins(lines, spot)
    \/ cancel
    \/ \E args \in RaceArgs : other_add_config("w1", args, "none")
    \/ other_add_config_insert("w1", "none")

SpecFromStart == InitFresh /\ [][NextFromStart]_vars

(***************************************************************************)
(* SpecStore: the store alone, used by two processes, with a storage       *)
(* engine that executes every statement it is sent.                        *)
(***************************************************************************)
StoreLabels == {<<"a">>, <<"b">>}

StoreArgs ==
    {[label |-> label, coins |-> << <<HYPE, 60>>, <<ETH, 40>> >>,
      interval |-> <<"4", "h">>, amount |-> 28] : label \in StoreLabels}
    \cup
    {[label |-> label, coins |-> << <<BTC, 100>> >>,
      interval |-> <<"1", "d">>, amount |-> 1000] : label \in StoreLabels}

StoreIds == StoreLabels \cup {<<"1">>}

NextStore ==
    \/ \E c \in Callers, args \in StoreArgs : other_add_config(c, args, "none")
    \/ \E c \in Callers : other_add_config_insert(c, "none")
    \/ \E id \in StoreIds : read_config(id)
    \/ \E label \in StoreLabels : read_config_by_label(label)

SpecStore == InitFresh /\ [][NextStore]_vars

(***************************************************************************)
(* SpecParse: parse_interval_to_timedelta on every short text.             *)
(***************************************************************************)
InitParse ==
    /\ is_mainnet = FALSE
    /\ InitBotIdle
    /\ sip_config = <<>>
    /\ others = [c \in Callers |-> IdleCall]
    /\ log = <<>>
    /\ fetched = NothingFetched
    /\ sized = NothingSized
    /\ internal_config = [p \in DbPaths |-> None]
    /\ manager = NoStartup
    /\ \E text \in IntervalStrings :
          parsed = [text |-> text, done |-> FALSE, result |-> Raise("none")]

NextParse == parse_interval

SpecParse == InitParse /\ [][NextParse]_vars

(***************************************************************************)
(* SpecRuns: the schedule computation of the Interval step, for more       *)
(* intervals and times than Spec has, on two consecutive days.  It starts  *)
(* behind the Composition state with one session and reaches the Interval  *)
(* state through the Budget handler.                                       *)
(***************************************************************************)
RunTexts ==
    { <<"4", "h">>, <<"7", "h">>, <<"2", "5", "h">>, <<"3", "0", "m">>,
      <<"1", "d">>, <<"2", "d">>,
      <<"9", "9", "9", "9", "9", "9", "9", "d">> }

RunNows ==
    {[day |-> d, min |-> m] :
        d \in {NowDay, NowDay + 1}, m \in {0, 1, 239, 240, 420, 1439}}

InitRuns ==
    /\ InitAtBudget
    /\ ~is_mainnet
    /\ user_data["label"] = <<"a">>
    /\ \A k \in 1..Len(user_data["pairs"]) : user_data["pairs"][k].price = 20

NextRuns ==
    \/ \E text \in AmountTexts : received_amount(text)
    \/ \E text \in RunTexts, now \in RunNows : received_interval(text, now)
    \/ interval_loop
    \/ interval_summary

SpecRuns == InitRuns /\ [][NextRuns]_vars

(***************************************************************************)
(* SpecSize: calculate_token_amounts on its own, over compositions, pair   *)
(* lists (some leaving an asset out, some with a price of 0) and budgets,  *)
(* and the Budget handler on the sessions a Composition step leaves on the *)
(* mainnet when every Pair carries a precision.                            *)
(***************************************************************************)
SizeCoins ==
    { << <<BTC, 60>>, <<ETH, 40>> >>,
      << <<BTC, 25>>, <<ETH, 75>> >>,
      << <<ETH, 75>>, <<BTC, 25>> >>,
      << <<BTC, 7>>, <<ETH, 93>> >>,
      << <<BTC, 100>> >> }

SizePrices == {0, 20, 2500, 50000}
SizeDecimals == {2, 4, 5}
SizeBudgets == {1000, 28, 20, 3}

\* the pairs of the assets `priced`, in the order of coins
PairsOf(coins, priced, price, sz) ==
    LET IsPriced(entry) == entry[1] \in priced
        kept == SelectSeq(coins, IsPriced)
    IN  [j \in 1..Len(kept) |->
            Pair([symbol      |-> pair_symbol(kept[j][1], TRUE).val,
                  price       |-> price[kept[j][1]],
                  market_type |-> "spot",
                  base_token  |-> kept[j][1],
                  quote_token |-> "USDC",
                  sz_decimals |-> sz[kept[j][1]]]).val]

InitSizeCall ==
    /\ InitBotIdle
    /\ \E coins \in SizeCoins, sip_amount \in SizeBudgets :
          \E priced \in SUBSET DictKeys(coins) :
             \E price \in [priced -> SizePrices], sz \in [priced -> SizeDecimals] :
                sized = [coins |-> coins,
                         pairs |-> PairsOf(coins, priced, price, sz),
                         sip_amount |-> sip_amount,
                         done |-> FALSE,
                         result |-> Raise("none")]

InitSizeBudget ==
    /\ conv = STATES_AMOUNT
    /\ pc = "idle"
    /\ frame = NoData
    /\ reply = Msg("ask_amount")
    /\ raised = "none"
    /\ passed = {"LABEL", "COINS"}
    /\ inserted = 0
    /\ intakes = 1
    /\ sized = NothingSized
    /\ \E coins \in SizeCoins :
          \E price \in [DictKeys(coins) -> SizePrices],
             sz \in [DictKeys(coins) -> SizeDecimals] :
             user_data = SessionAfterComposition(<<"a">>, coins, price, sz)

InitSize ==
    /\ is_mainnet = TRUE
    /\ sip_config = <<>>
    /\ others = [c \in Callers |-> IdleCall]
    /\ log = <<>>
    /\ fetched = NothingFetched
    /\ parsed = NothingParsed
    /\ internal_config = [p \in DbPaths |-> None]
    /\ manager = NoStartup
    /\ (InitSizeCall \/ InitSizeBudget)

NextSize ==
    \/ calculate_amounts
    \/ \E text \in AmountTexts : received_amount(text)

SpecSize == InitSize /\ [][NextSize]_vars

(***************************************************************************)
(* SpecStartup: the bot started again and again on one host, with any of   *)
(* the configuration files in place at each start.                         *)
(***************************************************************************)
InitStartup ==
    /\ is_mainnet = FALSE
    /\ InitBotIdle
    /\ InitStoreIdle

NextStartup == \E file \in ConfigFiles, o \in Answers : validate(file, o)

SpecStartup == InitStartup /\ [][NextStartup]_vars

(***************************************************************************)
(* Properties.                                                             *)
(***************************************************************************)
Steps == {"LABEL", "COINS", "AMOUNT", "INTERVAL"}

Successor(state) ==
    CASE state = "LABEL" -> "COINS"
      [] state = "COINS" -> "AMOUNT"
      [] state = "AMOUNT" -> "INTERVAL"
      [] state = "INTERVAL" -> "CONFIRMATION"
      [] state = "CONFIRMATION" -> "DONE"

\* a step taken by the bot, not by another process
BotStep == others' = others /\ log' = log

HasLabel(table, label) == \E k \in 1..Len(table) : table[k].label = label

\* C1: the conversation only moves Label -> Composition -> Budget ->
\* Interval -> Confirmation -> Done: a handler leaves the state as it is or
\* moves it to the next one; only a reject or /cancel ends it early
\* (Cancelled), and only /add_config leaves a terminal state, for Label.
C1_ForwardOnly ==
    [][conv' # conv =>
          \/ conv \in Terminal /\ conv' = "LABEL"
          \/ conv \in InProgress /\ conv' \in {Successor(conv), "CANCELLED"}]_vars

C1_Witness ==
    /\ conv = "DONE"
    /\ passed = {"LABEL", "COINS", "AMOUNT", "INTERVAL"}
    /\ reply.msg = "added"

\* C2: when a step handler (Label, Composition, Budget, Interval) rejects its
\* input, the conversation stays in the same state and the session is what
\* it was before the handler ran.
Rejections ==
    {"bad_label", "label_exists", "bad_composition", "bad_number",
     "insufficient", "bad_interval"}

C2_RejectKeepsSession ==
    [][(/\ BotStep
        /\ conv \in Steps
        /\ pc' = "idle"
        /\ raised' = "none"
        /\ reply'.msg \in Rejections)
          => conv' = conv /\ user_data' = user_data]_vars

\* C3: the bot writes the table only in the Confirmation state, on accept,
\* after the four steps of this intake moved forward, at most once per
\* intake, and what it writes is one row holding the label, composition,
\* interval and budget of the session.
C3_OnlyConfirmedInsert ==
    [][(BotStep /\ sip_config' # sip_config) =>
          /\ conv = "CONFIRMATION"
          /\ pc = "confirm_insert"
          /\ frame.data = "confirm"
          /\ passed = Steps
          /\ inserted = 0
          /\ SessionKeys \subseteq DOMAIN user_data
          /\ sip_config' =
                Append(sip_config,
                       [label      |-> user_data["label"],
                        coins      |-> json_dumps(user_data["coins"]),
                        interval   |-> user_data["interval"],
                        amount     |-> Float(user_data["amount"]),
                        enabled    |-> 1,
                        created_at |-> "utcnow"])]_vars

C3_Witness ==
    /\ inserted = 1
    /\ Len(sip_config) = 1
    /\ sip_config[1].interval = <<"4", "h">>
    /\ conv = "DONE"

\* C4: every stored plan has integer weights in 0..100 that add to 100, a
\* budget above 0 and a label of at most 50 characters.
PlanWellFormed(row) ==
    /\ \A k \in 1..Len(row.coins.json) :
          /\ row.coins.json[k][2] \in Int
          /\ row.coins.json[k][2] >= 0
          /\ row.coins.json[k][2] <= 100
    /\ SumValues(row.coins.json) = 100
    /\ FloatValue(row.amount) > 0
    /\ Len(row.label) <= 50

C4_PlansWellFormed ==
    \A k \in 1..Len(sip_config) : PlanWellFormed(sip_config[k])

C4_Witness ==
    /\ inserted = 1
    /\ \E k \in 1..Len(sip_config) :
          /\ sip_config[k].coins.json = << <<HYPE, 60>>, <<ETH, 40>> >>
          /\ FloatValue(sip_config[k].amount) = 28
          /\ Len(sip_config[k].label) = 50

\* C5: however two add_config calls for one label interleave, the table
\* never holds two rows with that label.
C5_LabelUnique ==
    \A j, k \in 1..Len(sip_config) :
        sip_config[j].label = sip_config[k].label => j = k

\* both calls passed the in-code check, the second INSERT was refused
C5_Witness ==
    \E j, k \in 1..Len(log) :
        /\ j < k
        /\ log[j].args.label = log[k].args.label
        /\ log[j].result = "ok"
        /\ log[k].fresh
        /\ log[k].result = "IntegrityError"

\* C6: when the label of the intake has been taken by another plan by the
\* time the accept commits, the Confirmation handler ends the conversation
\* (Done) with the duplicate-label message, clears the session and lets no
\* exception escape.
DuplicateHandled ==
    /\ conv' = "DONE"
    /\ reply'.msg = "duplicate"
    /\ user_data' = NoData
    /\ raised' = "none"

C7_SecondIsDuplicate ==
    /\ \A k \in 1..Len(log) :
          (/\ log[k].fresh
           /\ \A j \in (log[k].seen + 1)..(k - 1) :
                 ~(log[j].args.label = log[k].args.label /\ log[j].result = "ok"))
              => log[k].result = "ok"
    /\ \A j, k \in 1..Len(log) :
          (/\ j <= log[k].seen
           /\ log[j].args.label = log[k].args.label
           /\ log[j].result = "ok")
              => /\ log[k].result = "DuplicateLabelError"
                 /\ \E r \in 1..Len(sip_config) :
                       sip_config[r] = add_config_row(log[j].args)

C7_Witness ==
    \E j, k \in 1..Len(log) :
        /\ j <= log[k].seen
        /\ log[j].args.label = log[k].args.label
        /\ log[j].args.coins # log[k].args.coins
        /\ log[j].result = "ok"
        /\ log[k].result = "DuplicateLabelError"

\* C8: a plan written by add_config is returned by get_config and by
\* get_config_by_label with the label, composition, interval and budget that
\* were written.
SameMapping(a, b) ==
    /\ Len(a) = Len(b)
    /\ \A k \in 1..Len(a) :
          a[k][1] = b[k][1] /\ FloatValue(a[k][2]) = b[k][2]

ReadsBack(result, args) ==
    /\ result.ok
    /\ result.val.some
    /\ result.val.v.label = args.label
    /\ SameMapping(parse_coins_json(result.val.v.coins), args.coins)
    /\ result.val.v.interval = args.interval
    /\ FloatValue(result.val.v.amount) = args.amount

C8_RoundTrip ==
    \A k \in 1..Len(log) :
        (/\ log[k].result = "ok"
         /\ k <= fetched.after
         /\ fetched.op \in {"get_config", "get_config_by_label"}
         /\ fetched.key = log[k].args.label)
            => ReadsBack(fetched.result, log[k].args)

\* reading back by label alone
RoundTripByLabel ==
    \A k \in 1..Len(log) :
        (/\ log[k].result = "ok"
         /\ k <= fetched.after
         /\ fetched.op = "get_config_by_label"
         /\ fetched.key = log[k].args.label)
            => ReadsBack(fetched.result, log[k].args)

\* C9: parse_interval_to_timedelta returns n days, hours or minutes exactly
\* for the texts made of digits and one of d, h, m in either case, and
\* raises ValueError for every other text.
MatchesIntervalFormat(text) ==
    /\ Len(text) >= 2
    /\ \A k \in 1..(Len(text) - 1) : text[k] \in Digits
    /\ text[Len(text)] \in {"d", "h", "m", "D", "H", "M"}

IntervalNumber(text) == DigitsValue(SubSeq(text, 1, Len(text) - 1))

MinutesOfUnit(u) ==
    CASE u \in {"d", "D"} -> MinutesPerDay
      [] u \in {"h", "H"} -> MinutesPerHour
      [] u \in {"m", "M"} -> 1

C9_ParseInterval ==
    parsed.done =>
        IF MatchesIntervalFormat(parsed.text)
        THEN /\ parsed.result.ok
             /\ parsed.result.val.mins \in 0..(MinutesPerDay - 1)
             /\ IF parsed.text[Len(parsed.text)] \in {"d", "D"}
                THEN /\ parsed.result.val.days = IntervalNumber(parsed.text)
                     /\ parsed.result.val.mins = 0
                ELSE parsed.result.val.days * MinutesPerDay
                        + parsed.result.val.mins
                     = IntervalNumber(parsed.text)
                        * MinutesOfUnit(parsed.text[Len(parsed.text)])
        ELSE parsed.result = Raise("ValueError")

DeltaMinutes(delta) == delta.days * MinutesPerDay + delta.mins

\* minutes from midnight of `day` to the datetime t
MinutesSince(day, t) == (t.day - day) * MinutesPerDay + t.min

\* the runs collected so far are the first grid points after now of the
\* grid anchored at midnight of `day`
FirstOnGrid(f, day) ==
    \A j \in 1..Len(f.next_runs) :
        LET D  == DeltaMinutes(f.delta)
            K0 == MinutesSince(day, f.now) \div D
        IN  /\ MinutesSince(day, f.next_runs[j]) = (K0 + j) * D
            /\ K0 + j >= 1
            /\ datetime_gt(f.next_runs[j], f.now)
            /\ j > 1 => datetime_gt(f.next_runs[j], f.next_runs[j - 1])

Millionth == Pow10(6)

\* round(n / d) to the nearest integer, ties to even (n >= 0, d > 0)
RoundHalfEven(n, d) ==
    LET q == n \div d
        r == n % d
    IN  IF 2 * r > d THEN q + 1
        ELSE IF 2 * r < d THEN q
        ELSE IF q % 2 = 0 THEN q ELSE q + 1

PairFor(pairs, token) ==
    pairs[CHOOSE j \in 1..Len(pairs) : pairs[j].base_token = token]

AllPriced(coins, pairs) ==
    \A k \in 1..Len(coins) :
        \E j \in 1..Len(pairs) :
            pairs[j].base_token = coins[k][1] /\ pairs[j].price # 0

\* the float x is budget * w / 100 to a millionth of a dollar
NotionalIs(x, budget, w) ==
    Scaled(x, Millionth).floor
        \in {budget * w * (Millionth \div 100) - 1,
             budget * w * (Millionth \div 100)}

\* budget * w / 100 / price in units of 10^-sz, rounded half to even
\* (sz >= 2, so that the numbers stay small)
QuantityIs(qty, budget, w, price, sz) ==
    qty = RoundHalfEven(budget * w * Pow10(sz - 2), price)

C13_Sizing ==
    (sized.done /\ AllPriced(sized.coins, sized.pairs)) =>
        /\ sized.result.ok
        /\ DictKeys(sized.result.val) = DictKeys(sized.coins)
        /\ \A k \in 1..Len(sized.coins) :
              LET token == sized.coins[k][1]
                  w     == sized.coins[k][2]
                  pair  == PairFor(sized.pairs, token)
                  leg   == DictGet(sized.result.val, token)
              IN  /\ leg.price = pair.price
                  /\ NotionalIs(leg.token_usd, sized.sip_amount, w)
                  /\ QuantityIs(leg.qty, sized.sip_amount, w, pair.price,
                                pair.sz_decimals)

\* the example of C13 is computed as stated
SizingExample ==
    (/\ sized.done
     /\ sized.coins = << <<BTC, 60>>, <<ETH, 40>> >>
     /\ sized.sip_amount = 1000
     /\ Len(sized.pairs) = 2
     /\ sized.pairs[1].price = 50000 /\ sized.pairs[1].sz_decimals = 5
     /\ sized.pairs[2].price = 2500 /\ sized.pairs[2].sz_decimals = 4)
        => /\ sized.result.ok
           /\ DictGet(sized.result.val, BTC).qty = 1200
           /\ DictGet(sized.result.val, ETH).qty = 1600
           /\ Scaled(DictGet(sized.result.val, BTC).token_usd, 1) =
                 [floor |-> 600, half |-> 2]
           /\ Scaled(DictGet(sized.result.val, ETH).token_usd, 1) =
                 [floor |-> 400, half |-> 2]

\* C14: for a composition whose weights add to 100, a budget above 0 and
\* prices for all its assets, the notionals calculate_token_amounts returns
\* add up to the budget, to within one unit of the coarsest precision
\* among the assets.
RECURSIVE SumMillionths(_)
SumMillionths(result) ==
    IF result = <<>> THEN 0
    ELSE Scaled(result[1][2].token_usd, Millionth).floor
            + SumMillionths(Tail(result))

LeastPrecision(pairs) ==
    CHOOSE sz \in {pairs[j].sz_decimals : j \in 1..Len(pairs)} :
        \A j \in 1..Len(pairs) : sz <= pairs[j].sz_decimals

\* the sum of the floors is at most Len(result) millionths below the sum
C14_NotionalsSum ==
    (/\ sized.done
     /\ SumValues(sized.coins) = 100
     /\ sized.sip_amount > 0
     /\ AllPriced(sized.coins, sized.pairs)) =>
        /\ sized.result.ok
        /\ LET sum == SumMillionths(sized.result.val)
               tol == Millionth \div Pow10(LeastPrecision(sized.pairs))
               n   == Len(sized.result.val)
           IN  /\ sum >= sized.sip_amount * Millionth - tol
               /\ sum + n <= sized.sip_amount * Millionth + tol

\* two assets of different precision, one notional that is no whole number
\* of millionths
C14_Witness ==
    /\ sized.done
    /\ sized.result.ok
    /\ sized.sip_amount = 28
    /\ Len(sized.result.val) = 2
    /\ sized.pairs[1].sz_decimals # sized.pairs[2].sz_decimals
    /\ \E k \in 1..2 :
          Scaled(sized.result.val[k][2].token_usd, Millionth).half # 2

\* C15: when an asset of the composition has no pair in the list or a
\* price of 0, calculate_token_amounts raises the price-not-found error and
\* returns nothing, wherever the asset stands in the composition; the
\* Budget handler then stays in the Budget state.
C15_PriceUnavailable ==
    [][/\ (/\ ~sized.done
           /\ sized'.done
           /\ ~AllPriced(sized.coins, sized.pairs))
              => sized'.result = Raise("ValueError")
       /\ \A text \in AmountTexts :
             (/\ received_amount(text)
              /\ int(rstrip_dollar(strip(text))).ok
              /\ ~AllPriced(user_data["coins"], user_data["pairs"]))
                 => /\ conv' = STATES_AMOUNT
                    /\ reply'.msg = "bad_number"
                    /\ raised' = "none"]_vars

\* the first asset has a price, the second has no pair
C15_Witness ==
    /\ sized.done
    /\ Len(sized.coins) = 2
    /\ Len(sized.pairs) = 1
    /\ sized.pairs[1].base_token = sized.coins[1][1]
    /\ sized.pairs[1].price # 0
    /\ sized.result = Raise("ValueError")

(***************************************************************************)
(* The steps of the intake, one by one.                                    *)
(***************************************************************************)
\* what the Label step must refuse: no text, a text longer than 50
\* characters, the label of a stored plan (character for character)
LabelRefused(label) ==
    \/ label = <<>>
    \/ Len(label) > 50
    \/ \E k \in 1..Len(sip_config) : sip_config[k].label = label

\* C16: in the Label state, with a store that answers, a label that is
\* empty, longer than 50 characters or exactly the label of a stored plan
\* leaves the conversation in Label and the session as it was; every other
\* label is stored in the session under "label" and moves the conversation
\* to Composition.
C16_LabelStep ==
    [][\A label \in StartLabelTexts :
          /\ LabelRefused(label) /\ conv = STATES_LABEL /\ pc = "idle" =>
                /\ ~(received_label(label, "none") /\ conv' # STATES_LABEL)
                /\ ~(received_label(label, "none") /\ user_data' # user_data)
          /\ ~LabelRefused(label) /\ conv = STATES_LABEL /\ pc = "idle" =>
                /\ ENABLED received_label(label, "none")
                /\ received_label(label, "none") =>
                      /\ conv' = STATES_COINS
                      /\ user_data' = Put(user_data, "label", label)]_vars

\* the label of a stored plan was just refused, and the same letter in the
\* other case is a label the step can still take
C16_Witness ==
    /\ conv = STATES_LABEL
    /\ reply.msg = "label_exists"
    /\ HasLabel(sip_config, <<"a">>)
    /\ ~HasLabel(sip_config, <<"A">>)
    /\ "label" \notin DOMAIN user_data

\* what the Composition step must refuse.  A line is the list of its parts
\* between " - " separators; the weight of a line is its second part.
SeparatorMissing(line) == Len(line) = 1

WeightOutOfRange(line) ==
    /\ Len(line) = 2
    /\ int(line[2]).ok
    /\ int(line[2]).val < 0 \/ int(line[2]).val > 100

SymbolAndWeight(lines) ==
    \A k \in 1..Len(lines) : Len(lines[k]) = 2 /\ int(lines[k][2]).ok

\* the total of the weights from line k on: of every line, or of the last
\* line of each symbol only (the composition is a mapping)
RECURSIVE TotalFrom(_, _, _)
TotalFrom(lines, k, lastOnly) ==
    IF k > Len(lines) THEN 0
    ELSE TotalFrom(lines, k + 1, lastOnly) +
         ( IF lastOnly /\ \E j \in (k + 1)..Len(lines) : lines[j][1] = lines[k][1]
           THEN 0 ELSE int(lines[k][2]).val )

Malformed(lines) ==
    \/ \E k \in 1..Len(lines) : SeparatorMissing(lines[k])
    \/ \E k \in 1..Len(lines) : WeightOutOfRange(lines[k])
    \/ SymbolAndWeight(lines) /\ TotalFrom(lines, 1, TRUE) # 100

LinesTotalOff(lines) ==
    SymbolAndWeight(lines) /\ TotalFrom(lines, 1, FALSE) # 100

\* the texts of either kind among those sent in the Composition state
MalformedTexts == {lines \in StartCompositionTexts : Malformed(lines)}
TotalOffTexts == {lines \in StartCompositionTexts : LinesTotalOff(lines)}

\* C17: in the Composition state, a text with a line without the " - "
\* separator, with a weight below 0 or above 100, or whose weights do not
\* add to 100 is answered with the invalid-composition message, leaves the
\* session as it was and leaves the conversation in Composition; the
\* conversation also stays in Composition, with no pairs stored, when only
\* the lines as typed (a symbol named twice) do not add to 100.
C17_CompositionStep ==
    [][conv = STATES_COINS /\ pc = "idle" =>
          /\ \A lines \in MalformedTexts :
                \/ /\ conv' = STATES_COINS
                   /\ reply'.msg = "bad_composition"
                   /\ user_data' = user_data
                \/ \A spot \in [CoinsOf(lines) -> SpotOutcomes] :
                      ~received_coins(lines, spot)
          /\ \A lines \in TotalOffTexts :
                \/ /\ conv' = STATES_COINS
                   /\ "pairs" \notin DOMAIN user_data'
                \/ \A spot \in [CoinsOf(lines) -> SpotOutcomes] :
                      ~received_coins(lines, spot)]_vars

\* a composition was just refused before anything of it was stored
C17_Witness ==
    /\ conv = STATES_COINS
    /\ reply.msg = "bad_composition"
    /\ raised = "none"
    /\ DOMAIN user_data = {"label"}

\* a composition the Composition step must take: lines of a symbol and a
\* weight from 0 to 100, adding to 100
WellFormed(lines) ==
    /\ lines # <<>>
    /\ SymbolAndWeight(lines)
    /\ \A k \in 1..Len(lines) : ~WeightOutOfRange(lines[k])
    /\ TotalFrom(lines, 1, TRUE) = 100
    /\ TotalFrom(lines, 1, FALSE) = 100

\* the venue lists the symbol in the current mode (consty.py)
Supported(coin) == is_mainnet \/ DictHas(TestnetPairs, coin)

\* the session holds one priced pair of the symbol, with its price and its
\* quantity precision
OnePricedPair(data, coin, price) ==
    /\ "pairs" \in DOMAIN data
    /\ Cardinality({k \in 1..Len(data["pairs"]) :
                       data["pairs"][k].base_token = coin}) = 1
    /\ \A k \in 1..Len(data["pairs"]) :
          data["pairs"][k].base_token = coin =>
             /\ data["pairs"][k].price = price
             /\ "sz_decimals" \in DOMAIN data["pairs"][k]

\* C18: in the Composition state, a well-formed composition adding to 100
\* whose symbols are all supported and all priced stores one priced pair
\* per symbol in the session and moves the conversation to Budget; with an
\* unsupported symbol the conversation stays in Composition.
C18_PairsResolved ==
    [][conv = STATES_COINS /\ pc = "idle" =>
          \A lines \in StartCompositionTexts :
             WellFormed(lines) =>
                \A spot \in [CoinsOf(lines) -> SpotOutcomes] :
                   received_coins(lines, spot) =>
                      IF \A coin \in CoinsOf(lines) : Supported(coin)
                      THEN (\A coin \in CoinsOf(lines) :
                               spot[coin].ok /\ spot[coin].val # 0) =>
                              /\ conv' = STATES_AMOUNT
                              /\ \A coin \in CoinsOf(lines) :
                                    OnePricedPair(user_data', coin, spot[coin].val)
                      ELSE conv' = STATES_COINS]_vars

\* the assets of the session the Budget step must name for a budget: those
\* whose quantity, budget * w / 100 / price rounded half to even at the
\* asset's precision, is not above 0, and those worth less than 11 dollars
Violating(data, budget) ==
    {data["coins"][k][1] : k \in
        {j \in 1..Len(data["coins"]) :
            LET w    == data["coins"][j][2]
                pair == PairFor(data["pairs"], data["coins"][j][1])
            IN  \/ RoundHalfEven(budget * w * Pow10(pair.sz_decimals - 2),
                                 pair.price) <= 0
                \/ budget * w < MinOrderUsd * 100}}

\* some quantity of the session lies half way between two roundings
HasTie(data, budget) ==
    \E j \in 1..Len(data["coins"]) :
        LET w    == data["coins"][j][2]
            pair == PairFor(data["pairs"], data["coins"][j][1])
        IN  2 * ((budget * w * Pow10(pair.sz_decimals - 2)) % pair.price)
                = pair.price

BudgetOf(text) == int(rstrip_dollar(strip(text)))

BudgetStepOffTies ==
    [][(/\ conv = STATES_AMOUNT /\ pc = "idle"
        /\ {"coins", "pairs"} \subseteq DOMAIN user_data
        /\ AllPriced(user_data["coins"], user_data["pairs"])) =>
          \A text \in AmountTexts :
             (/\ BudgetOf(text).ok
              /\ ~HasTie(user_data, BudgetOf(text).val)
              /\ received_amount(text)) =>
                IF Violating(user_data, BudgetOf(text).val) = {}
                THEN conv' = STATES_INTERVAL
                ELSE /\ conv' = STATES_AMOUNT
                     /\ reply'.msg = "insufficient"
                     /\ reply'.coins = Violating(user_data, BudgetOf(text).val)]_vars

\* C20: in each of the states Label, Composition, Budget, Interval and
\* Confirmation, with no handler running, /cancel is taken; it ends the
\* conversation (Cancelled), leaves the session empty whatever it held,
\* and writes nothing to the store.
C20_CancelDiscards ==
    [][(/\ pc = "idle"
        /\ conv \in {STATES_LABEL, STATES_COINS, STATES_AMOUNT,
                     STATES_INTERVAL, STATES_CONFIRMATION}) =>
          /\ ENABLED cancel
          /\ cancel =>
                /\ conv' = "CANCELLED"
                /\ user_data' = NoData
                /\ sip_config' = sip_config
                /\ inserted' = inserted]_vars

\* cancelled in the Interval state, with a label, a composition, pairs and
\* a budget in the session, and nothing inserted
C20_Witness ==
    /\ conv = "CANCELLED"
    /\ reply.msg = "cancelled"
    /\ passed = {"LABEL", "COINS", "AMOUNT"}
    /\ user_data = NoData
    /\ inserted = 0

(***************************************************************************)
(* The session at the end of an intake.                                    *)
(***************************************************************************)
\* C21: once an intake has ended (plan added, duplicate label reported,
\* reject, /cancel), or its accept was abandoned on another error of the
\* store, the session is empty; so the next intake starts, in Label, with
\* an empty session.
C21_EndedSessionEmpty ==
    /\ conv \in {"DONE", "CANCELLED", STATES_LABEL} => user_data = NoData
    /\ (conv = STATES_CONFIRMATION /\ pc = "idle" /\ raised # "none") =>
          user_data = NoData

\* a second intake has started after the first one added its plan
C21_Witness ==
    /\ conv = STATES_LABEL
    /\ intakes = 2
    /\ \E k \in 1..Len(sip_config) : sip_config[k].interval = <<"4", "h">>
    /\ user_data = NoData

\* C22: when add_config fails at Confirmation with an error other than
\* DuplicateLabelError (a statement the storage engine refuses, or the
\* INSERT of a label taken since the check), that same error escapes the
\* handler and the session is empty.
C22_ClearThenReraise ==
    [][/\ (pc = "idle" /\ conv = STATES_CONFIRMATION
           /\ SessionKeys \subseteq DOMAIN user_data) =>
             \A fault \in DbFaults \ {"none"} :
                received_confirmation("confirm", fault) =>
                   raised' = fault /\ user_data' = NoData
       /\ pc = "confirm_insert" =>
             /\ \A fault \in DbFaults \ {"none"} :
                   confirm_insert(fault) =>
                      raised' = fault /\ user_data' = NoData
             /\ (HasLabel(sip_config, frame.args.label)
                   /\ confirm_insert("none")) =>
                      raised' = "IntegrityError" /\ user_data' = NoData]_vars

\* the INSERT of an accepted intake was refused by the storage engine
C22_Witness ==
    /\ conv = STATES_CONFIRMATION
    /\ pc = "idle"
    /\ raised = "OperationalError"
    /\ reply.msg = "unexpected"
    /\ user_data = NoData

\* C23: no exception escapes the handler of the Label, Composition, Budget
\* or Interval state: whatever the text and whatever the store or the price
\* lookup does, the handler returns and the conversation is in the same
\* state.
C23_NoEscape ==
    conv \in {STATES_LABEL, STATES_COINS, STATES_AMOUNT, STATES_INTERVAL} =>
        raised = "none"

(***************************************************************************)
(* The startup check.                                                      *)
(***************************************************************************)
\* the configuration says which network, hence which database, it is for
NamesNetwork(config) ==
    /\ DictHas(config, "hyperliquid")
    /\ DictHas(DictGet(config, "hyperliquid"), "testnet")

\* the hash stored for a configuration before the startup
StoredFor(config) ==
    IF ~NamesNetwork(config) THEN None
    ELSE IF DictGet(DictGet(config, "hyperliquid"), "testnet")
         THEN internal_config["data/testnet.db"]
         ELSE internal_config["data/mainnet.db"]

\* a startup has run, found config.yaml, and the store answered the read
ReadConfig ==
    /\ manager'.runs # manager.runs
    /\ ~(manager'.calls = <<>> /\ manager'.raised = "ConfigError")
    /\ manager'.raised # "OperationalError"

Decision(config) ==
    Some(~(StoredFor(config).some
           /\ StoredFor(config).v = sha256(json_dumps(config))))

\* C24: load_config returns false exactly when a hash is stored and equals
\* the hash of the configuration just read, and true when no hash is stored
\* or the stored one differs.
C24_NeedsRevalidation ==
    [][ReadConfig => manager'.config_changed = Decision(manager'.config)]_vars

\* the same, for the configurations that name their network
DecisionWhenNetworkNamed ==
    [][(ReadConfig /\ NamesNetwork(manager'.config)) =>
          manager'.config_changed = Decision(manager'.config)]_vars

\* the required fields are present and well-formed
TokenFormat(token) ==
    \E n \in 1..Len(token) :
       /\ \A k \in 1..n : token[k] \in Digits
       /\ Len(token) >= n + 36
       /\ token[n + 1] = ":"
       /\ \A k \in (n + 2)..Len(token) : token[k] \notin {":", " "}

StructuralOk(config) ==
    /\ {"telegram", "hyperliquid"} \subseteq DictKeys(config)
    /\ LET telegram == DictGet(config, "telegram")
           hyperliquid == DictGet(config, "hyperliquid")
       IN  /\ {"bot_token", "user_id"} \subseteq DictKeys(telegram)
           /\ {"wallet_address", "private_key"} \subseteq DictKeys(hyperliquid)
           /\ TokenFormat(DictGet(telegram, "bot_token"))
           /\ "int" \in DOMAIN DictGet(telegram, "user_id")
           /\ DictGet(hyperliquid, "wallet_address") # <<>>
           /\ DictGet(hyperliquid, "private_key") # <<>>

\* the last startup asked the venue for the account and got a balance
Connected(m) ==
    /\ \E k \in 1..Len(m.calls) : m.calls[k] = "spot_user_state"
    /\ m.balances.some /\ m.balances.v >= 1

Placed(m) == \E k \in 1..Len(m.calls) : m.calls[k] = "order"

\* its test order was placed and is neither filled nor left in the book
ProbeClean(m) == Placed(m) /\ ~m.resting /\ ~m.filled

\* C25: a stored hash is the hash of a configuration whose structural
\* checks, connectivity check and test-order probe all succeeded in the
\* startup that stored it, and a startup that fails stores nothing.
C25_StoredHashValidated ==
    [][manager'.runs # manager.runs =>
          /\ manager'.raised # "none" => internal_config' = internal_config
          /\ \A p \in DbPaths :
                internal_config'[p] # internal_config[p] =>
                   /\ internal_config'[p] = Some(sha256(json_dumps(manager'.config)))
                   /\ manager'.raised = "none"
                   /\ StructuralOk(manager'.config)
                   /\ Connected(manager')
                   /\ ProbeClean(manager')]_vars

\* the same, not asking what became of a test order that rested
StoredHashValidatedButCancel ==
    [][manager'.runs # manager.runs =>
          /\ manager'.raised # "none" => internal_config' = internal_config
          /\ \A p \in DbPaths :
                internal_config'[p] # internal_config[p] =>
                   /\ internal_config'[p] = Some(sha256(json_dumps(manager'.config)))
                   /\ manager'.raised = "none"
                   /\ StructuralOk(manager'.config)
                   /\ Connected(manager')
                   /\ Placed(manager') /\ ~manager'.filled]_vars

\* the hash stored for the configuration is the hash of that configuration
Unchanged(config) ==
    /\ StoredFor(config).some
    /\ StoredFor(config).v = sha256(json_dumps(config))

CheckCalls ==
    {"initial_validation", "user_state", "spot_user_state", "get_spot_price",
     "order", "cancel"}

\* C26: a startup that finds the stored hash equal to the hash of its
\* configuration runs no structural check, asks the venue for no account
\* state and places no test order, and still builds the exchange client.
C26_UnchangedSkipsChecks ==
    [][(ReadConfig /\ Unchanged(manager'.config)) =>
          /\ \A k \in 1..Len(manager'.calls) : manager'.calls[k] \notin CheckCalls
          /\ manager'.raised = "none"
          /\ manager'.exchange.some]_vars

C26_Witness ==
    /\ manager.runs >= 2
    /\ manager.config_changed = Some(FALSE)
    /\ manager.calls = <<"get", "load_exchange">>
    /\ manager.exchange.some
    /\ manager.raised = "none"

\* C27: whatever makes validate fail, a missing section or field and a
\* failure of an outside service included, the caller gets a ConfigError.
C27_OnlyConfigError == manager.raised \in {"none", "ConfigError"}

ExternalCalls ==
    {"get_chat", "user_state", "spot_user_state", "get_spot_price", "order",
     "cancel"}

\* C28: the structural checks come first, then the connectivity check, then
\* the test order; the order is placed only for a configuration that passed
\* the structural checks and after a connectivity check that returned a
\* balance, and no outside service is called when the structural checks fail.
C28_ChecksInOrder ==
    /\ \A k \in 1..Len(manager.calls) :
          manager.calls[k] = "order" =>
             /\ StructuralOk(manager.config)
             /\ Connected(manager)
             /\ \E i, j \in 1..k :
                   /\ i < j
                   /\ manager.calls[i] = "initial_validation"
                   /\ manager.calls[j] = "spot_user_state"
    /\ ~StructuralOk(manager.config) =>
          \A k \in 1..Len(manager.calls) : manager.calls[k] \notin ExternalCalls

C28_Witness ==
    /\ manager.raised = "none"
    /\ manager.calls = <<"get", "initial_validation", "get_chat", "load_exchange",
                         "user_state", "spot_user_state", "get_spot_price",
                         "order", "set">>

\* a startup refused by the structural checks alone
C28_Refused ==
    /\ manager.raised = "ConfigError"
    /\ manager.calls = <<"get", "initial_validation">>

\* C29: a startup that succeeds leaves no test order in the book and has
\* none filled: an order that rested has been cancelled, and a fill or a
\* cancel that failed makes the startup fail.
C29_ProbeLeavesNothing ==
    (manager.raised = "none" /\ Placed(manager)) =>
       ~manager.resting /\ ~manager.filled

\* what a configuration says, whatever the order of its sections and fields
Content(config) ==
    UNION {{<<config[i][1], config[i][2][j][1], config[i][2][j][2]>> :
               j \in 1..Len(config[i][2])} : i \in 1..Len(config)}

\* C30: two configurations that differ only in the order of their keys have
\* the same hash.
C30_HashIgnoresKeyOrder ==
    manager.runs > 0 =>
       \A file \in ConfigFiles :
          Content(file.v) = Content(manager.config) =>
             sha256(json_dumps(file.v)) = manager.config_hash

(***************************************************************************)
(* The composition and the budget.                                         *)
(***************************************************************************)
\* the texts whose lines are a symbol and a weight each, adding to 100
HundredTexts ==
    {lines \in StartCompositionTexts :
        lines # <<>> /\ SymbolAndWeight(lines) /\ TotalFrom(lines, 1, FALSE) = 100}

\* the weight the lines from line k on give to a symbol
RECURSIVE SymbolTotalFrom(_, _, _)
SymbolTotalFrom(lines, k, coin) ==
    IF k > Len(lines) THEN 0
    ELSE SymbolTotalFrom(lines, k + 1, coin) +
         (IF lines[k][1] = coin THEN int(lines[k][2]).val ELSE 0)

AccountsFor(coins, lines) ==
    \A k \in 1..Len(lines) :
       /\ DictHas(coins, lines[k][1])
       /\ DictGet(coins, lines[k][1]) = SymbolTotalFrom(lines, 1, lines[k][1])

\* C32: in the Composition state, a text is taken as a composition only if
\* the weights of all its lines add to 100, a symbol named on several lines
\* included: any other text leaves the session and the state as they were,
\* and a composition that is stored gives every symbol the weight of all
\* its lines.
C32_WeightsOfAllLines ==
    [][conv = STATES_COINS /\ pc = "idle" =>
          /\ \A lines \in StartCompositionTexts \ HundredTexts :
                \/ conv' = STATES_COINS /\ user_data' = user_data
                \/ \A spot \in [CoinsOf(lines) -> SpotOutcomes] :
                      ~received_coins(lines, spot)
          /\ \A lines \in HundredTexts :
                \/ user_data' = user_data
                \/ /\ "coins" \in DOMAIN user_data'
                   /\ AccountsFor(user_data'["coins"], lines)
                \/ \A spot \in [CoinsOf(lines) -> SpotOutcomes] :
                      ~received_coins(lines, spot)]_vars

\* budgets an operator can try, up to a million dollars
BudgetTexts == AmountTexts \cup {<<"1">> \o Repeat("0", 6)}

\* the intake waits for a budget, with a composition the Composition step
\* took and a price above 0 for each of its symbols
AtBudget ==
    /\ conv = STATES_AMOUNT
    /\ pc = "idle"
    /\ {"coins", "pairs"} \subseteq DOMAIN user_data
    /\ \A k \in 1..Len(user_data["pairs"]) : user_data["pairs"][k].price > 0

\* the Budget handler moves on when the text is a whole number, every
\* symbol is sized, and no quantity or notional is refused
Advances(data, text) ==
    LET sip_amount == int(rstrip_dollar(strip(text)))
    IN  /\ sip_amount.ok
        /\ LET coins_breakup ==
                   calculate_token_amounts(data["coins"], data["pairs"],
                                           sip_amount.val)
           IN  coins_breakup.ok /\ breakup_errors(coins_breakup.val) = {}

\* Advances says when received_amount returns STATES.INTERVAL
AdvancesIsTheStep ==
    [][(conv = STATES_AMOUNT /\ pc = "idle"
           /\ {"coins", "pairs"} \subseteq DOMAIN user_data) =>
          \A text \in AmountTexts :
             received_amount(text) =>
                (conv' = STATES_INTERVAL <=> Advances(user_data, text))]_vars

BudgetPassableOffZeroWeights ==
    (AtBudget /\ \A k \in 1..Len(user_data["coins"]) : user_data["coins"][k][2] > 0) =>
       \E text \in BudgetTexts : Advances(user_data, text)

====
